---------------------------- MODULE Spec2Model ----------------------------
(***************************************************************************)
(* A model of the report parsing and classification core of the Linux      *)
(* security audit tool: LynisParser (src/src/utils/lynis_parser.py) and    *)
(* SeverityClassifier (src/src/utils/severity_classifier.py).              *)
(*                                                                         *)
(* Text is a sequence of symbols.  A symbol is one character ("0", "m",    *)
(* " ", ...) or one of the literals the regular expressions of the parser  *)
(* look for ("Hardening index", "[WARNING]", ...), kept as one symbol.     *)
(***************************************************************************)
EXTENDS Integers, Sequences, FiniteSets, TLC

VARIABLES
    ansi_text,      \* argument of the latest strip_ansi_codes call
    ansi_clean,     \* value that call returned
    ansi_calls      \* number of strip_ansi_codes calls made so far

VARIABLES
    finding,        \* argument of the latest classify_finding call
    severity,       \* value that call returned ("unset" before the call)
    statistics,     \* SeverityClassifier.statistics
    cf_findings,    \* the list given to the latest classify_findings call,
                    \* as the call left it
    cf_classified,  \* list that call returned
    cf_calls        \* number of classify_findings calls made so far

ansi_vars == <<ansi_text, ansi_clean, ansi_calls>>

finding_vars == <<finding, severity>>

VARIABLES
    cf_op,          \* latest call made on the classifier ("__init__" at first)
    tally,          \* history: per severity, the findings classify_findings
                    \* calls assigned it since the last reset
    single_calls,   \* history: classify_finding calls since the last reset
    snapshot_ref,   \* the dict the latest get_statistics returned: "none",
                    \* "copy" (a new dict) or "statistics" (self.statistics)
    snapshot,       \* contents of that dict
    cf_given        \* history: that list as it was when the call was made

classifier_vars ==
    <<statistics, cf_findings, cf_classified, cf_calls,
      cf_op, tally, single_calls, snapshot_ref, snapshot, cf_given>>

VARIABLES
    t_pc,           \* per thread, its position in classify_findings
    t_findings,     \* per thread, the argument of its call
    t_index,        \* per thread, the index of the finding of the loop
    t_severity,     \* per thread, the local variable severity
    t_loaded,       \* per thread, self.statistics[severity.value] as read
    t_classified    \* per thread, the local list classified

thread_vars == <<t_pc, t_findings, t_index, t_severity, t_loaded, t_classified>>

VARIABLES
    raw_output,     \* text given to parse
    parsed_data,    \* value parse returned
    formatted,      \* outcome of format_for_display(parsed_data)
    parser_pc       \* "start", "parsed" (parse returned), "formatted"

parser_vars == <<raw_output, parsed_data, formatted, parser_pc>>

VARIABLES
    jobs,           \* every ScanJob created so far, in order of creation; the
                    \* scan_id of a job is its index
    _jobs,          \* ScanService._jobs: the scan ids the service holds
    scan_threads,   \* every thread start_scan created, in order of creation,
                    \* each with the subprocess it opened
    scan_process,   \* LynisScanner.scan_process of the one shared scanner:
                    \* 0 (None) or the index of the thread whose subprocess it is
    cancel,         \* the cancel_job call in progress and what the latest returned
    start_scan_calls,    \* history: per job, the start_scan calls made on it
    start_scan_returned, \* value the latest start_scan call returned
    terminated_for, \* history: per subprocess, the scan id given to the
                    \* cancel_job call that terminated or killed it (0: none)
    cancelled_jobs  \* history: scan ids for which a cancel_job returned True

scan_vars ==
    <<jobs, _jobs, scan_threads, scan_process, cancel,
      start_scan_calls, start_scan_returned, terminated_for, cancelled_jobs>>

utils_vars == <<ansi_vars, finding_vars, classifier_vars, parser_vars, thread_vars>>

vars == <<ansi_vars, finding_vars, classifier_vars, parser_vars, thread_vars, scan_vars>>

(***************************************************************************)
(* Bounds of the model.                                                    *)
(***************************************************************************)
MaxAnsiLen == 6

MaxPhrases == 2

MaxFindings == 3

MaxCalls == 2

MaxTextLen == 4

MaxExtra == 2

(***************************************************************************)
(* Generic helpers on sequences.                                           *)
(***************************************************************************)
SeqsUpTo(S, n) == UNION {[1..k -> S] : k \in 0..n}

Min(a, b) == IF a <= b THEN a ELSE b

(***************************************************************************)
(* LynisParser.strip_ansi_codes: self.ansi_escape.sub('', text) with       *)
(* ansi_escape = re.compile(r'\x1b\[[0-9;]*m').                            *)
(***************************************************************************)
ESC == "ESC"

Digits == {"0", "1", "2", "3", "4", "5", "6", "7", "8", "9"}

\* the character class [0-9;]
IsAnsiParam(c) == c \in Digits \cup {";"}

\* [0-9;]* is greedy and "m" is not in the class: the parameters end at the
\* first symbol outside the class
RECURSIVE SkipAnsiParams(_, _)
SkipAnsiParams(s, j) ==
    IF j <= Len(s) /\ IsAnsiParam(s[j]) THEN SkipAnsiParams(s, j + 1) ELSE j

\* mutant: the final "m" is optional (r'\x1b\[[0-9;]*m?')
ansi_escape_optional_m(s, i) ==
    IF i + 1 <= Len(s) /\ s[i] = ESC /\ s[i + 1] = "["
    THEN LET j == SkipAnsiParams(s, i + 2)
         IN  IF j <= Len(s) /\ s[j] = "m" THEN j ELSE j - 1
    ELSE 0

\* the pattern tried at position i: the index of the last symbol of the match,
\* or 0 when the pattern does not match at i
ansi_escape(s, i) ==
    IF i + 1 <= Len(s) /\ s[i] = ESC /\ s[i + 1] = "["
    THEN LET j == SkipAnsiParams(s, i + 2)
         IN  IF j <= Len(s) /\ s[j] = "m" THEN j ELSE 0
    ELSE 0

\* the least element of a non-empty set of integers
Least(S) == CHOOSE x \in S : \A y \in S : x <= y

Greatest(S) == CHOOSE x \in S : \A y \in S : x >= y

\* re.sub: one scan from left to right from position i on; the symbols up to
\* the next match are copied, the match is dropped and the scan goes on
\* after it
RECURSIVE AnsiSubFrom(_, _)
AnsiSubFrom(s, i) ==
    LET hits == {j \in i..Len(s) : ansi_escape(s, j) > 0}
    IN  IF hits = {} THEN SubSeq(s, i, Len(s))
        ELSE LET j == Least(hits)
             IN  SubSeq(s, i, j - 1) \o AnsiSubFrom(s, ansi_escape(s, j) + 1)

strip_ansi_codes(text) == AnsiSubFrom(text, 1)

(***************************************************************************)
(* Strings of the classifier are sequences of characters, so that          *)
(* "keyword in message" is substring containment.                          *)
(***************************************************************************)
UpperCase == <<"A","B","C","D","E","F","G","H","I","J","K","L","M",
               "N","O","P","Q","R","S","T","U","V","W","X","Y","Z">>

LowerCase == <<"a","b","c","d","e","f","g","h","i","j","k","l","m",
               "n","o","p","q","r","s","t","u","v","w","x","y","z">>

\* str.lower()
lower(s) ==
    [i \in 1..Len(s) |->
        IF \E n \in 1..Len(UpperCase) : UpperCase[n] = s[i]
        THEN LowerCase[CHOOSE n \in 1..Len(UpperCase) : UpperCase[n] = s[i]]
        ELSE s[i]]

\* lit occurs in s at position i
MatchAt(s, i, lit) ==
    /\ i >= 1 /\ i + Len(lit) - 1 <= Len(s)
    /\ \A k \in 1..Len(lit) : s[i + k - 1] = lit[k]

\* Python's  lit in s
Contains(s, lit) == \E i \in 1..(Len(s) - Len(lit) + 1) : MatchAt(s, i, lit)

\* dict.get(key, default): the default only when the key is missing
Get(d, key, default) == IF key \in DOMAIN d THEN d[key] ELSE default

CRITICAL_KEYWORDS == <<
    <<"r","o","o","t"," ","p","a","s","s","w","o","r","d">>,
    <<"n","o"," ","p","a","s","s","w","o","r","d">>,
    <<"w","e","a","k"," ","p","a","s","s","w","o","r","d">>,
    <<"d","e","f","a","u","l","t"," ","p","a","s","s","w","o","r","d">>,
    <<"r","e","m","o","t","e"," ","r","o","o","t"," ","l","o","g","i","n">>,
    <<"s","s","h"," ","r","o","o","t"," ","l","o","g","i","n">>,
    <<"u","n","p","a","t","c","h","e","d"," ","v","u","l","n","e","r","a","b","i","l","i","t","y">>,
    <<"c","r","i","t","i","c","a","l"," ","v","u","l","n","e","r","a","b","i","l","i","t","y">>,
    <<"r","e","m","o","t","e"," ","c","o","d","e"," ","e","x","e","c","u","t","i","o","n">>,
    <<"r","c","e">>,
    <<"p","r","i","v","i","l","e","g","e"," ","e","s","c","a","l","a","t","i","o","n">>,
    <<"c","o","m","p","r","o","m","i","s","e","d">>,
    <<"b","a","c","k","d","o","o","r">>,
    <<"m","a","l","w","a","r","e">>
>>

HIGH_KEYWORDS == <<
    <<"f","i","r","e","w","a","l","l">>,
    <<"d","i","s","a","b","l","e","d">>,
    <<"n","o","t"," ","i","n","s","t","a","l","l","e","d">>,
    <<"n","o","t"," ","r","u","n","n","i","n","g">>,
    <<"u","n","e","n","c","r","y","p","t","e","d">>,
    <<"w","e","a","k"," ","c","i","p","h","e","r">>,
    <<"o","u","t","d","a","t","e","d">>,
    <<"d","e","p","r","e","c","a","t","e","d">>,
    <<"w","o","r","l","d"," ","w","r","i","t","a","b","l","e">>,
    <<"w","o","r","l","d"," ","r","e","a","d","a","b","l","e">>,
    <<"p","e","r","m","i","s","s","i","o","n"," ","7","7","7">>,
    <<"s","e","l","i","n","u","x"," ","d","i","s","a","b","l","e","d">>,
    <<"a","p","p","a","r","m","o","r"," ","d","i","s","a","b","l","e","d">>,
    <<"s","e","c","u","r","i","t","y"," ","m","o","d","u","l","e">>,
    <<"k","e","r","n","e","l"," ","p","a","r","a","m","e","t","e","r">>,
    <<"s","y","s","c","t","l">>,
    <<"i","n","s","e","c","u","r","e"," ","p","r","o","t","o","c","o","l">>,
    <<"t","e","l","n","e","t">>,
    <<"f","t","p">>,
    <<"r","s","h">>,
    <<"n","o"," ","a","u","t","h","e","n","t","i","c","a","t","i","o","n">>
>>

MEDIUM_KEYWORDS == <<
    <<"w","a","r","n","i","n","g">>,
    <<"c","o","n","f","i","g","u","r","a","t","i","o","n">>,
    <<"u","p","d","a","t","e"," ","a","v","a","i","l","a","b","l","e">>,
    <<"u","p","g","r","a","d","e">>,
    <<"m","i","s","s","i","n","g">>,
    <<"n","o","t"," ","f","o","u","n","d">>,
    <<"p","e","r","m","i","s","s","i","o","n">>,
    <<"o","w","n","e","r","s","h","i","p">>,
    <<"l","o","g"," ","f","i","l","e">>,
    <<"a","u","d","i","t">>,
    <<"m","o","n","i","t","o","r","i","n","g">>,
    <<"i","n","t","e","g","r","i","t","y">>,
    <<"c","e","r","t","i","f","i","c","a","t","e">>,
    <<"s","s","l">>,
    <<"t","l","s">>,
    <<"e","n","c","r","y","p","t","i","o","n">>,
    <<"n","e","t","w","o","r","k"," ","s","e","r","v","i","c","e">>,
    <<"o","p","e","n"," ","p","o","r","t">>,
    <<"l","i","s","t","e","n","i","n","g">>
>>

LOW_KEYWORDS == <<
    <<"s","u","g","g","e","s","t","i","o","n">>,
    <<"r","e","c","o","m","m","e","n","d","a","t","i","o","n">>,
    <<"c","o","n","s","i","d","e","r">>,
    <<"o","p","t","i","o","n","a","l">>,
    <<"b","a","n","n","e","r">>,
    <<"i","n","f","o","r","m","a","t","i","o","n","a","l">>,
    <<"d","o","c","u","m","e","n","t","a","t","i","o","n">>,
    <<"o","p","t","i","m","i","z","a","t","i","o","n">>,
    <<"p","e","r","f","o","r","m","a","n","c","e">>,
    <<"b","e","s","t"," ","p","r","a","c","t","i","c","e">>
>>

\* The file patterns are regular expressions: a literal searched anywhere,
\* a literal anchored by $ (the end of the string, or before a final newline),
\* and private.*key (no newline between the two literals).
RegexLiteral(lit) == [kind |-> "literal", lit |-> lit, then |-> <<>>]
RegexAtEnd(lit) == [kind |-> "at_end", lit |-> lit, then |-> <<>>]
RegexThen(lit, then) == [kind |-> "then", lit |-> lit, then |-> then]

CRITICAL_FILE_PATTERNS == <<
    RegexLiteral(<<"/","e","t","c","/","s","h","a","d","o","w">>),
    RegexLiteral(<<"/","e","t","c","/","p","a","s","s","w","d">>),
    RegexLiteral(<<"/","r","o","o","t","/",".","s","s","h">>),
    RegexAtEnd(<<".","p","e","m">>),
    RegexAtEnd(<<".","k","e","y">>),
    RegexThen(<<"p","r","i","v","a","t","e">>, <<"k","e","y">>)
>>

HIGH_FILE_PATTERNS == <<
    RegexLiteral(<<"/","e","t","c","/","s","u","d","o","e","r","s">>),
    RegexLiteral(<<"/","e","t","c","/","s","s","h","/","s","s","h","d","_","c","o","n","f","i","g">>),
    RegexLiteral(<<"/","e","t","c","/","p","a","m",".","d","/">>),
    RegexLiteral(<<"/","b","o","o","t","/">>),
    RegexLiteral(<<".","a","u","t","h","o","r","i","z","e","d","_","k","e","y","s">>)
>>

\* re.search(pattern, message, re.IGNORECASE) on the lower-cased message
re_search(p, s) ==
    CASE p.kind = "literal" -> Contains(s, p.lit)
      [] p.kind = "at_end" ->
            \/ MatchAt(s, Len(s) - Len(p.lit) + 1, p.lit)
            \/ /\ Len(s) >= 1 /\ s[Len(s)] = "\n"
               /\ MatchAt(s, Len(s) - Len(p.lit), p.lit)
      [] p.kind = "then" ->
            \E i, j \in 1..Len(s) :
                /\ MatchAt(s, i, p.lit)
                /\ j >= i + Len(p.lit)
                /\ MatchAt(s, j, p.then)
                /\ \A k \in (i + Len(p.lit))..(j - 1) : s[k] # "\n"

\* for keyword in keywords: if keyword in message
AnyKeyword(keywords, message) ==
    \E n \in 1..Len(keywords) : Contains(message, keywords[n])

\* for pattern in patterns: if re.search(pattern, message, re.IGNORECASE)
AnyPattern(patterns, message) ==
    \E n \in 1..Len(patterns) : re_search(patterns[n], message)

STR_warning == <<"w","a","r","n","i","n","g">>
STR_suggestion == <<"s","u","g","g","e","s","t","i","o","n">>
STR_suggest == <<"s","u","g","g","e","s","t">>

\* mutant: a warning without a keyword or a file pattern falls to low
ClassifyWarning_default_low(message) ==
    IF AnyKeyword(CRITICAL_KEYWORDS, message) THEN "critical"
    ELSE IF AnyKeyword(HIGH_KEYWORDS, message) THEN "high"
    ELSE IF AnyPattern(CRITICAL_FILE_PATTERNS, message) THEN "critical"
    ELSE IF AnyPattern(HIGH_FILE_PATTERNS, message) THEN "high"
    ELSE "low"

\* mutant: the file patterns are tried before the high keywords
ClassifyWarning_pattern_first(message) ==
    IF AnyKeyword(CRITICAL_KEYWORDS, message) THEN "critical"
    ELSE IF AnyPattern(CRITICAL_FILE_PATTERNS, message) THEN "critical"
    ELSE IF AnyKeyword(HIGH_KEYWORDS, message) THEN "high"
    ELSE IF AnyPattern(HIGH_FILE_PATTERNS, message) THEN "high"
    ELSE "medium"

\* classify_finding, the warning branch
ClassifyWarning(message) ==
    IF AnyKeyword(CRITICAL_KEYWORDS, message) THEN "critical"
    ELSE IF AnyKeyword(HIGH_KEYWORDS, message) THEN "high"
    ELSE IF AnyPattern(CRITICAL_FILE_PATTERNS, message) THEN "critical"
    ELSE IF AnyPattern(HIGH_FILE_PATTERNS, message) THEN "high"
    ELSE "medium"

\* classify_finding, the suggestion branch
ClassifySuggestion(message) ==
    IF AnyKeyword(CRITICAL_KEYWORDS, message) THEN "high"
    ELSE IF AnyKeyword(HIGH_KEYWORDS, message) THEN "medium"
    ELSE "low"

\* classify_finding, the general branch
ClassifyGeneral(message) ==
    IF AnyKeyword(CRITICAL_KEYWORDS, message) THEN "critical"
    ELSE IF AnyKeyword(HIGH_KEYWORDS, message) THEN "high"
    ELSE IF AnyKeyword(MEDIUM_KEYWORDS, message) THEN "medium"
    ELSE IF AnyKeyword(LOW_KEYWORDS, message) THEN "low"
    ELSE "info"

\* SeverityClassifier.classify_finding; the result is the Severity's value
classify_finding(f) ==
    LET message == lower(Get(f, "message", <<>>))
        finding_type == lower(Get(f, "type", <<>>))
    IN  IF finding_type = STR_warning \/ Contains(message, STR_warning)
        THEN ClassifyWarning(message)
        ELSE IF finding_type = STR_suggestion \/ Contains(message, STR_suggest)
        THEN ClassifySuggestion(message)
        ELSE ClassifyGeneral(message)

Severities == {"critical", "high", "medium", "low", "info"}

\* mutant: the levels count from 1
_severity_to_level_from_one(sev) ==
    CASE sev = "critical" -> 1
      [] sev = "high" -> 2
      [] sev = "medium" -> 3
      [] sev = "low" -> 4
      [] sev = "info" -> 5
      [] OTHER -> 5

\* SeverityClassifier._severity_to_level
_severity_to_level(sev) ==
    CASE sev = "critical" -> 0
      [] sev = "high" -> 1
      [] sev = "medium" -> 2
      [] sev = "low" -> 3
      [] sev = "info" -> 4
      [] OTHER -> 4

\* severity_order.get(x['severity'], 999), the sort key of classify_findings
severity_order(x) ==
    CASE x["severity"] = "critical" -> 0
      [] x["severity"] = "high" -> 1
      [] x["severity"] = "medium" -> 2
      [] x["severity"] = "low" -> 3
      [] x["severity"] = "info" -> 4
      [] OTHER -> 999

\* mutant: an element is put before the elements of the same key
InsertByKey_before_equal(sorted, x) ==
    LET n == Cardinality({i \in 1..Len(sorted) :
                            severity_order(sorted[i]) < severity_order(x)})
    IN  SubSeq(sorted, 1, n) \o <<x>> \o SubSeq(sorted, n + 1, Len(sorted))

\* list.sort(key=...) is stable: in a sorted list an element goes after the
\* elements whose key is less than or equal to its own
InsertByKey(sorted, x) ==
    LET n == Cardinality({i \in 1..Len(sorted) :
                            severity_order(sorted[i]) <= severity_order(x)})
    IN  SubSeq(sorted, 1, n) \o <<x>> \o SubSeq(sorted, n + 1, Len(sorted))

RECURSIVE SortBySeverity(_)
SortBySeverity(list) ==
    IF list = <<>> THEN <<>>
    ELSE InsertByKey(SortBySeverity(SubSeq(list, 1, Len(list) - 1)), list[Len(list)])

\* finding.copy() with the keys 'severity' and 'severity_level' set
WithSeverity(f, sev) ==
    [k \in DOMAIN f \cup {"severity", "severity_level"} |->
        IF k = "severity" THEN sev
        ELSE IF k = "severity_level" THEN _severity_to_level(sev)
        ELSE f[k]]

\* mutant: a counter is incremented once a call, not once a finding
classify_findings_once_a_call(list) ==
    LET sev == [i \in 1..Len(list) |-> classify_finding(list[i])]
        classified == [i \in 1..Len(list) |-> WithSeverity(list[i], sev[i])]
    IN  [classified |-> SortBySeverity(classified),
         counted |-> [s \in Severities |->
                        IF \E i \in 1..Len(list) : sev[i] = s THEN 1 ELSE 0],
         findings |-> list]

\* mutant: the keys are set on the finding itself, not on a copy
classify_findings_in_place(list) ==
    LET sev == [i \in 1..Len(list) |-> classify_finding(list[i])]
        classified == [i \in 1..Len(list) |-> WithSeverity(list[i], sev[i])]
    IN  [classified |-> SortBySeverity(classified),
         counted |-> [s \in Severities |-> Cardinality({i \in 1..Len(list) : sev[i] = s})],
         findings |-> classified]

\* SeverityClassifier.classify_findings on a list: the list it returns, the
\* number of times it increments each counter, and the list it was given as
\* it leaves it (the keys are set on finding.copy(), the new list classified
\* is the one appended to and sorted)
classify_findings(list) ==
    LET sev == [i \in 1..Len(list) |-> classify_finding(list[i])]
        classified == [i \in 1..Len(list) |-> WithSeverity(list[i], sev[i])]
    IN  [classified |-> SortBySeverity(classified),
         counted |-> [s \in Severities |-> Cardinality({i \in 1..Len(list) : sev[i] = s})],
         findings |-> list]

\* mutant: get_statistics returns self.statistics itself
get_statistics_no_copy(stats) == [ref |-> "statistics", value |-> stats]

\* SeverityClassifier.get_statistics: self.statistics.copy(), a new dict
\* with the counters
get_statistics(stats) == [ref |-> "copy", value |-> stats]

\* SeverityClassifier.reset_statistics: every key of the dict is set to 0
reset_statistics(stats) == [s \in DOMAIN stats |-> 0]

(***************************************************************************)
(* Python values that may be None: None, or a value.                       *)
(***************************************************************************)
None == [none |-> TRUE]

Some(x) == [value |-> x]

(***************************************************************************)
(* Helpers of the regular expressions of LynisParser.                      *)
(***************************************************************************)
\* \s
IsSpace(c) == c \in {" ", "\n", "\t"}

\* [A-Z]
IsUpper(c) == \E n \in 1..Len(UpperCase) : UpperCase[n] = c

\* the number of symbols from position p on that \s* can take
RECURSIVE SpaceRun(_, _)
SpaceRun(s, p) == IF p >= 1 /\ p <= Len(s) /\ IsSpace(s[p]) THEN 1 + SpaceRun(s, p + 1) ELSE 0

\* the number of symbols from position p on that \d+ can take
RECURSIVE DigitRun(_, _)
DigitRun(s, p) == IF p >= 1 /\ p <= Len(s) /\ s[p] \in Digits THEN 1 + DigitRun(s, p + 1) ELSE 0

\* the number of symbols from position p on that [A-Z]+ can take
RECURSIVE UpperRun(_, _)
UpperRun(s, p) == IF p >= 1 /\ p <= Len(s) /\ IsUpper(s[p]) THEN 1 + UpperRun(s, p + 1) ELSE 0

\* the number of symbols from position p on that . can take (no newline)
RECURSIVE LineRun(_, _)
LineRun(s, p) == IF p >= 1 /\ p <= Len(s) /\ s[p] # "\n" THEN 1 + LineRun(s, p + 1) ELSE 0

At(s, p) == IF p >= 1 /\ p <= Len(s) THEN s[p] ELSE "<end>"

DigitChars == <<"0", "1", "2", "3", "4", "5", "6", "7", "8", "9">>

\* int(digits)
RECURSIVE int(_)
int(ds) ==
    IF ds = <<>> THEN 0
    ELSE 10 * int(SubSeq(ds, 1, Len(ds) - 1))
            + (CHOOSE n \in 0..9 : DigitChars[n + 1] = ds[Len(ds)])

\* str(n) of an integer n >= 0
RECURSIVE str(_)
str(n) == IF n < 10 THEN <<DigitChars[n + 1]>> ELSE str(n \div 10) \o <<DigitChars[(n % 10) + 1]>>

\* str.strip()
RECURSIVE strip(_)
strip(s) ==
    IF s = <<>> THEN s
    ELSE IF IsSpace(s[1]) THEN strip(Tail(s))
    ELSE IF IsSpace(s[Len(s)]) THEN strip(SubSeq(s, 1, Len(s) - 1))
    ELSE s

\* str.split('\n')
RECURSIVE split_lines(_)
split_lines(s) ==
    IF \E p \in 1..Len(s) : s[p] = "\n"
    THEN LET p == CHOOSE q \in 1..Len(s) : s[q] = "\n" /\ \A r \in 1..(q - 1) : s[r] # "\n"
         IN  <<SubSeq(s, 1, p - 1)>> \o split_lines(SubSeq(s, p + 1, Len(s)))
    ELSE <<s>>

NoMatch == [ok |-> FALSE, from |-> 0, to |-> 0]

Match(from, to) == [ok |-> TRUE, from |-> from, to |-> to]

(***************************************************************************)
(* LynisParser._parse_summary                                              *)
(***************************************************************************)
\* label\s*:\s*(\d+) tried at position i: the span of the digits
LabeledNumberAt(s, i, label) ==
    IF At(s, i) # label THEN NoMatch
    ELSE LET p == i + 1 + SpaceRun(s, i + 1)
         IN  IF At(s, p) # ":" THEN NoMatch
             ELSE LET q == p + 1 + SpaceRun(s, p + 1)
                  IN  IF DigitRun(s, q) = 0 THEN NoMatch
                      ELSE Match(q, q + DigitRun(s, q) - 1)

\* mutant: a missing line gives 0
LabeledNumber_zero(text, label) ==
    LET hits == {i \in 1..Len(text) : LabeledNumberAt(text, i, label).ok}
    IN  IF hits = {} THEN Some(0)
        ELSE LET m == LabeledNumberAt(text, Least(hits), label)
             IN  Some(int(SubSeq(text, m.from, m.to)))

\* mutant: the last labelled line wins
LabeledNumber_last(text, label) ==
    LET hits == {i \in 1..Len(text) : LabeledNumberAt(text, i, label).ok}
    IN  IF hits = {} THEN None
        ELSE LET m == LabeledNumberAt(text, Greatest(hits), label)
             IN  Some(int(SubSeq(text, m.from, m.to)))

\* re.search(r'label\s*:\s*(\d+)', text): the first match, as an int, or None
LabeledNumber(text, label) ==
    LET hits == {i \in 1..Len(text) : LabeledNumberAt(text, i, label).ok}
    IN  IF hits = {} THEN None
        ELSE LET m == LabeledNumberAt(text, Least(hits), label)
             IN  Some(int(SubSeq(text, m.from, m.to)))

_parse_summary(text) ==
    [hardening_index |-> LabeledNumber(text, "Hardening index"),
     tests_performed |-> LabeledNumber(text, "Tests performed"),
     plugins_enabled |-> LabeledNumber(text, "Plugins enabled")]

(***************************************************************************)
(* LynisParser._extract_warnings                                           *)
(***************************************************************************)
\* \s*(.+?)(?=\n|$) from position p: \s* takes as much as leaves a symbol
\* other than a newline for the group, and the lazy group runs to the end
\* of its line
LineCapture(s, p) ==
    LET ws == {w \in 0..SpaceRun(s, p) : LineRun(s, p + w) > 0}
    IN  IF ws = {} THEN NoMatch
        ELSE LET g == p + Greatest(ws)
             IN  Match(g, g + LineRun(s, g) - 1)

\* re.IGNORECASE
WarningMarkers == {"[WARNING]", "[warning]", "[Warning]"}

\* \[WARNING\]:?\s*(.+?)(?=\n|$) tried at position i: the span of the group
WarningAt(s, i) ==
    IF At(s, i) \notin WarningMarkers THEN NoMatch
    ELSE IF At(s, i + 1) = ":" /\ LineCapture(s, i + 2).ok THEN LineCapture(s, i + 2)
    ELSE LineCapture(s, i + 1)

\* warning_pattern.finditer(text) from position i on
RECURSIVE WarningsFrom(_, _)
WarningsFrom(s, i) ==
    LET hits == {j \in i..Len(s) : WarningAt(s, j).ok}
    IN  IF hits = {} THEN <<>>
        ELSE LET m == WarningAt(s, Least(hits))
             IN  <<[type |-> STR_warning, message |-> strip(SubSeq(s, m.from, m.to))]>>
                    \o WarningsFrom(s, m.to + 1)

_extract_warnings(text) == WarningsFrom(text, 1)

(***************************************************************************)
(* LynisParser._extract_suggestions                                        *)
(***************************************************************************)
MAX_SUGGESTION_DETAILS == 3

SuggestionsMarkers == {"Suggestions", "suggestions", "SUGGESTIONS"}

\* Follow-up: (re.IGNORECASE) or the line of 80 "="
SectionEnds == {"Follow-up:", "follow-up:", "================"}

\* Suggestions.*?(?=Follow-up:|====): from the first "Suggestions" that has
\* an end marker after it to just before the first such marker
SuggestionsSection(text) ==
    LET starts == {i \in 1..Len(text) :
                     /\ text[i] \in SuggestionsMarkers
                     /\ \E j \in (i + 1)..Len(text) : text[j] \in SectionEnds}
    IN  IF starts = {} THEN NoMatch
        ELSE LET i == Least(starts)
                 j == Least({k \in (i + 1)..Len(text) : text[k] \in SectionEnds})
             IN  Match(i, j - 1)

\* \[([A-Z]+-\d+)\] at position p: the position of the "]", or 0
TestIdAt(s, p) ==
    IF At(s, p) # "[" \/ UpperRun(s, p + 1) = 0 THEN 0
    ELSE LET d == p + 1 + UpperRun(s, p + 1)
         IN  IF At(s, d) # "-" \/ DigitRun(s, d + 1) = 0 THEN 0
             ELSE LET e == d + 1 + DigitRun(s, d + 1)
                  IN  IF At(s, e) = "]" THEN e ELSE 0

\* the lookahead (?=\n\s*\*|\Z) at position p
EntryEndsAt(s, p) ==
    \/ p = Len(s) + 1
    \/ At(s, p) = "\n" /\ At(s, p + 1 + SpaceRun(s, p + 1)) = "*"

\* (.+?) then the lookahead, from position g: the least end of the group
RECURSIVE DetailsEnd(_, _)
DetailsEnd(s, e) ==
    IF e > Len(s) THEN 0
    ELSE IF EntryEndsAt(s, e + 1) THEN e
    ELSE DetailsEnd(s, e + 1)

\* the optional group \n\s*-\s*(.+?) and the lookahead, from position p:
\* the span of the details group
DetailsAt(s, p) ==
    IF At(s, p) # "\n" THEN NoMatch
    ELSE LET dash == p + 1 + SpaceRun(s, p + 1)
         IN  IF At(s, dash) # "-" THEN NoMatch
             ELSE LET ws == {w \in 0..SpaceRun(s, dash + 1) :
                               DetailsEnd(s, dash + 1 + w) > 0}
                  IN  IF ws = {} THEN NoMatch
                      ELSE LET g == dash + 1 + Greatest(ws)
                           IN  Match(g, DetailsEnd(s, g))

\* \s*(?:\n\s*-\s*(.+?))?(?=\n\s*\*|\Z) from position q (after the "]"):
\* \s* gives back symbols until the rest matches, the optional group is
\* tried before it is left out.  has says whether the group took part.
RECURSIVE EntryTail(_, _, _)
EntryTail(s, q, w) ==
    LET d == DetailsAt(s, q + w)
    IN  IF d.ok THEN [ok |-> TRUE, has |-> TRUE, from |-> d.from, to |-> d.to]
        ELSE IF EntryEndsAt(s, q + w)
        THEN [ok |-> TRUE, has |-> FALSE, from |-> 0, to |-> q + w - 1]
        ELSE IF w = 0 THEN [ok |-> FALSE, has |-> FALSE, from |-> 0, to |-> 0]
        ELSE EntryTail(s, q, w - 1)

NoEntry == [ok |-> FALSE, msg |-> <<0, 0>>, id |-> <<0, 0>>, has |-> FALSE, det |-> <<0, 0>>, to |-> 0]

\* (.+?)\s*\[([A-Z]+-\d+)\] and the rest, the group from g to e or, if that
\* fails, to a later end
RECURSIVE EntryMessage(_, _, _)
EntryMessage(s, g, e) ==
    IF e > Len(s) THEN NoEntry
    ELSE LET b == e + 1 + SpaceRun(s, e + 1)
             close == TestIdAt(s, b)
             tail == IF close = 0 THEN [ok |-> FALSE, has |-> FALSE, from |-> 0, to |-> 0]
                     ELSE EntryTail(s, close + 1, SpaceRun(s, close + 1))
         IN  IF tail.ok
             THEN [ok |-> TRUE, msg |-> <<g, e>>, id |-> <<b + 1, close - 1>>,
                   has |-> tail.has, det |-> <<tail.from, tail.to>>, to |-> tail.to]
             ELSE EntryMessage(s, g, e + 1)

\* \*\s*(.+?)... at position i, \s* having taken w symbols or, if that
\* fails, fewer
RECURSIVE EntryAt(_, _, _)
EntryAt(s, i, w) ==
    IF At(s, i) # "*" THEN NoEntry
    ELSE LET m == EntryMessage(s, i + 1 + w, i + 1 + w)
         IN  IF m.ok THEN m
             ELSE IF w = 0 THEN NoEntry
             ELSE EntryAt(s, i, w - 1)

\* the non-empty stripped lines of the details text
RECURSIVE NonEmptyStripped(_)
NonEmptyStripped(lines) ==
    IF lines = <<>> THEN <<>>
    ELSE (IF strip(lines[1]) # <<>> THEN <<strip(lines[1])>> ELSE <<>>)
            \o NonEmptyStripped(Tail(lines))

\* mutant: the detail lines are not cut
SuggestionDetails_all(details_text) == NonEmptyStripped(split_lines(strip(details_text)))

\* detail_lines[:MAX_SUGGESTION_DETAILS]
SuggestionDetails(details_text) ==
    LET detail_lines == NonEmptyStripped(split_lines(strip(details_text)))
    IN  SubSeq(detail_lines, 1, IF Len(detail_lines) < MAX_SUGGESTION_DETAILS
                                THEN Len(detail_lines) ELSE MAX_SUGGESTION_DETAILS)

\* suggestion_pattern.finditer(suggestion_text) from position i on
RECURSIVE SuggestionsFrom(_, _)
SuggestionsFrom(s, from) ==
    LET stars == {j \in from..Len(s) : s[j] = "*"}
    IN  IF stars = {} THEN <<>>
    ELSE LET i == Least(stars)
             m == EntryAt(s, i, SpaceRun(s, i + 1))
         IN  IF m.ok
             THEN <<[message |-> strip(SubSeq(s, m.msg[1], m.msg[2])),
                     test_id |-> strip(SubSeq(s, m.id[1], m.id[2])),
                     details |-> IF m.has /\ SubSeq(s, m.det[1], m.det[2]) # <<>>
                                 THEN SuggestionDetails(SubSeq(s, m.det[1], m.det[2]))
                                 ELSE <<>>]>>
                    \o SuggestionsFrom(s, m.to + 1)
             ELSE SuggestionsFrom(s, i + 1)

_extract_suggestions(text) ==
    LET section == SuggestionsSection(text)
    IN  IF section.ok THEN SuggestionsFrom(SubSeq(text, section.from, section.to), 1)
        ELSE <<>>

(***************************************************************************)
(* LynisParser._parse_system_info                                          *)
(***************************************************************************)
\* re.search(r'label\s*(.+?)(?=\n|$)', text): the stripped group of the
\* first match, or None
LabeledLine(text, label) ==
    LET hits == {i \in 1..Len(text) : text[i] = label /\ LineCapture(text, i + 1).ok}
    IN  IF hits = {} THEN None
        ELSE LET m == LineCapture(text, Least(hits) + 1)
             IN  Some(strip(SubSeq(text, m.from, m.to)))

_parse_system_info(text) ==
    [os_name |-> LabeledLine(text, "Operating system name:"),
     os_version |-> LabeledLine(text, "Operating system version:"),
     kernel_version |-> LabeledLine(text, "Kernel version:"),
     hostname |-> LabeledLine(text, "Hostname:"),
     hardware_platform |-> LabeledLine(text, "Hardware platform:")]

(***************************************************************************)
(* LynisParser._parse_security_components                                  *)
(***************************************************************************)
ComponentsMarkers == {"Software components:", "software components:"}

FilesMarkers == {"Files:", "files:"}

\* the lookahead (?=Files:|$) at position p: $ is the end of the text, or
\* the place before a final newline
ComponentsEndAt(s, p) ==
    \/ At(s, p) \in FilesMarkers
    \/ p = Len(s) + 1
    \/ p = Len(s) /\ s[p] = "\n"

\* Software components:(.+?)(?=Files:|$): the span of the group of the
\* first match
ComponentsSection(text) ==
    LET starts == {i \in 1..(Len(text) - 1) : text[i] \in ComponentsMarkers}
    IN  IF starts = {} THEN NoMatch
        ELSE LET g == Least(starts) + 1
             IN  Match(g, Least({e \in g..Len(text) : ComponentsEndAt(text, e + 1)}))

\* re.search(r'label\s+\[V\]', section_text)
InstalledMarker(section_text, label) ==
    \E i \in 1..Len(section_text) :
        /\ section_text[i] = label
        /\ SpaceRun(section_text, i + 1) >= 1
        /\ At(section_text, i + 1 + SpaceRun(section_text, i + 1)) = "[V]"

_parse_security_components(text) ==
    LET section == ComponentsSection(text)
        section_text == IF section.ok THEN SubSeq(text, section.from, section.to) ELSE <<>>
    IN  [firewall |-> section.ok /\ InstalledMarker(section_text, "Firewall"),
         intrusion_software |-> section.ok /\ InstalledMarker(section_text, "Intrusion software"),
         malware_scanner |-> section.ok /\ InstalledMarker(section_text, "Malware scanner")]

(***************************************************************************)
(* LynisParser.parse                                                       *)
(***************************************************************************)
parse(raw) ==
    LET clean_output == strip_ansi_codes(raw)
    IN  [summary |-> _parse_summary(clean_output),
         warnings |-> _extract_warnings(clean_output),
         suggestions |-> _extract_suggestions(clean_output),
         system_info |-> _parse_system_info(clean_output),
         security_components |-> _parse_security_components(clean_output)]

(***************************************************************************)
(* LynisParser.format_for_display                                          *)
(***************************************************************************)
MAX_WARNINGS_DISPLAY == 10

MAX_SUGGESTIONS_DISPLAY == 20

\* list[:n]
Prefix(list, n) == SubSeq(list, 1, IF Len(list) < n THEN Len(list) ELSE n)

\* mutant: the lower bound of 'excellent' is exclusive
_get_score_status_exclusive(score) ==
    IF score = None THEN "TypeError"
    ELSE IF score.value > 80 THEN "excellent"
    ELSE IF score.value >= 60 THEN "good"
    ELSE IF score.value >= 40 THEN "fair"
    ELSE "poor"

\* LynisParser._get_score_status; None >= 80 raises TypeError
_get_score_status(score) ==
    IF score = None THEN "TypeError"
    ELSE IF score.value >= 80 THEN "excellent"
    ELSE IF score.value >= 60 THEN "good"
    ELSE IF score.value >= 40 THEN "fair"
    ELSE "poor"

\* f"{x}"
format(x) == IF x = None THEN <<"N", "o", "n", "e">> ELSE str(x.value)

Return(v) == [raised |-> "", value |-> v]

Raise(e) == [raised |-> e, value |-> <<>>]

\* LynisParser.format_for_display: the bundle returned, or the exception
\* raised.  summary.get('hardening_index', 0) is the stored value, None
\* included: the key is always there.
format_for_display(parsed) ==
    LET summary == Get(parsed, "summary", <<>>)
        warnings == Get(parsed, "warnings", <<>>)
        suggestions == Get(parsed, "suggestions", <<>>)
        hardening_index == Get(summary, "hardening_index", Some(0))
        status == _get_score_status(hardening_index)
    IN  IF status = "TypeError" THEN Raise("TypeError")
        ELSE Return(
            [score |-> [hardening_index |-> hardening_index,
                        display |-> format(hardening_index) \o <<"/", "1", "0", "0">>,
                        status |-> status],
             statistics |-> [tests_performed |-> Get(summary, "tests_performed", Some(0)),
                             warnings_count |-> Len(warnings),
                             suggestions_count |-> Len(suggestions),
                             plugins_enabled |-> Get(summary, "plugins_enabled", Some(0))],
             system_info |-> Get(parsed, "system_info", <<>>),
             security_components |-> Get(parsed, "security_components", <<>>),
             findings |-> [warnings |-> Prefix(warnings, MAX_WARNINGS_DISPLAY),
                           suggestions |-> Prefix(suggestions, MAX_SUGGESTIONS_DISPLAY)]])

(***************************************************************************)
(* Calls of strip_ansi_codes: on a raw text, and again on its own result.  *)
(***************************************************************************)
AnsiAlphabet == {ESC, "[", "0", ";", "m", "x"}

InitAnsi ==
    /\ ansi_text \in SeqsUpTo(AnsiAlphabet, MaxAnsiLen)
    /\ ansi_clean = <<>>
    /\ ansi_calls = 0

InitAnsiIdle ==
    /\ ansi_text = <<>>
    /\ ansi_clean = <<>>
    /\ ansi_calls = 0

StripAnsiCodes ==
    /\ ansi_calls = 0
    /\ ansi_clean' = strip_ansi_codes(ansi_text)
    /\ ansi_calls' = 1
    /\ UNCHANGED <<ansi_text, finding_vars, classifier_vars, parser_vars, thread_vars, scan_vars>>

StripAgain ==
    /\ ansi_calls = 1
    /\ ansi_text' = ansi_clean
    /\ ansi_clean' = strip_ansi_codes(ansi_clean)
    /\ ansi_calls' = 2
    /\ UNCHANGED <<finding_vars, classifier_vars, parser_vars, thread_vars, scan_vars>>

(***************************************************************************)
(* Findings: dictionaries with a 'message' and, for some, a 'type'.        *)
(***************************************************************************)
NoKey == <<"<no key>">>

MakeFinding(type, message) ==
    [k \in (IF type = NoKey THEN {} ELSE {"type"}) \cup {"message"} |->
        IF k = "type" THEN type ELSE message]

Phrases == {
    <<"r","o","o","t"," ","p","a","s","s","w","o","r","d">>,
    <<"B","a","c","k","d","o","o","r">>,
    <<"f","i","r","e","w","a","l","l">>,
    <<"w","a","r","n","i","n","g">>,
    <<"s","u","g","g","e","s","t">>,
    <<"/","e","t","c","/","s","h","a","d","o","w">>,
    <<"/","e","t","c","/","s","u","d","o","e","r","s">>,
    <<"i","d",".","p","e","m">>,
    <<"a","u","d","i","t">>,
    <<"c","o","n","s","i","d","e","r">>,
    <<"o","k">>
}

RECURSIVE JoinPhrases(_)
JoinPhrases(ps) ==
    IF ps = <<>> THEN <<>>
    ELSE IF Len(ps) = 1 THEN ps[1]
    ELSE ps[1] \o <<" ">> \o JoinPhrases(Tail(ps))

Messages == {JoinPhrases(ps) : ps \in SeqsUpTo(Phrases, MaxPhrases)}

FindingTypes == {NoKey, STR_warning, STR_suggestion, <<"W","A","R","N","I","N","G">>}

Findings == {MakeFinding(t, m) : t \in FindingTypes, m \in Messages}

\* the findings the lists given to classify_findings are made of
FindingPool == {
    MakeFinding(STR_warning, <<"r","o","o","t"," ","p","a","s","s","w","o","r","d">>),
    MakeFinding(STR_warning, <<"a","u","d","i","t">>),
    MakeFinding(STR_suggestion, <<"f","i","r","e","w","a","l","l">>),
    MakeFinding(NoKey, <<"o","k">>)
}

FindingLists == SeqsUpTo(FindingPool, MaxFindings)

\* classify_findings and classify_finding on the inputs of the model, as
\* tables computed once (@@ makes TLC enumerate the function)
ClassifyFindingsOf ==
    [list \in FindingLists |-> classify_findings(list)] @@ [list \in {} |-> list]

SeverityOf == [f \in FindingPool |-> classify_finding(f)] @@ [f \in {} |-> f]

ZeroStatistics == [s \in Severities |-> 0]

InitFinding ==
    /\ finding \in Findings
    /\ severity = "unset"

InitFindingIdle ==
    /\ finding = MakeFinding(NoKey, <<>>)
    /\ severity = "unset"

InitClassifier ==
    /\ statistics = ZeroStatistics
    /\ cf_findings = <<>>
    /\ cf_classified = <<>>
    /\ cf_calls = 0
    /\ cf_op = "__init__"
    /\ tally = ZeroStatistics
    /\ single_calls = 0
    /\ snapshot_ref = "none"
    /\ snapshot = <<>>
    /\ cf_given = <<>>

\* a call of classify_finding on one finding, nothing else running
ClassifyFinding ==
    /\ severity = "unset"
    /\ severity' = classify_finding(finding)
    /\ UNCHANGED <<finding, ansi_vars, classifier_vars, parser_vars, thread_vars, scan_vars>>

\* the dict the caller of get_statistics holds, once the counters are stats:
\* the same dict when the caller holds self.statistics itself
SnapshotWhen(stats) == IF snapshot_ref = "statistics" THEN stats ELSE snapshot

\* a call of classify_findings on a list of lists
ClassifyFindingsAmong(lists) ==
    /\ cf_calls < MaxCalls
    /\ \E list \in lists :
        /\ cf_given' = list
        /\ cf_findings' = ClassifyFindingsOf[list].findings
        /\ cf_classified' = ClassifyFindingsOf[list].classified
        /\ statistics' = [s \in DOMAIN statistics |->
                            statistics[s] + ClassifyFindingsOf[list].counted[s]]
        /\ tally' = [s \in Severities |->
                        tally[s] + Cardinality({i \in 1..Len(list) : SeverityOf[list[i]] = s})]
    /\ cf_calls' = cf_calls + 1
    /\ cf_op' = "classify_findings"
    /\ snapshot' = SnapshotWhen(statistics')
    /\ UNCHANGED <<single_calls, snapshot_ref, ansi_vars, finding_vars, parser_vars, thread_vars, scan_vars>>

\* a call of classify_findings
ClassifyFindings == ClassifyFindingsAmong(FindingLists)

\* the lists of at most one finding
SingleLists == {list \in FindingLists : Len(list) <= 1}

\* a call of classify_findings on at most one finding
ClassifyFindingsSingle == ClassifyFindingsAmong(SingleLists)

\* a call of classify_finding on the classifier in use
ClassifyOne ==
    /\ single_calls < MaxCalls
    /\ \E f \in FindingPool :
        /\ finding' = f
        /\ severity' = SeverityOf[f]
    /\ single_calls' = single_calls + 1
    /\ cf_op' = "classify_finding"
    /\ UNCHANGED <<statistics, cf_findings, cf_given, cf_classified, cf_calls, tally,
                   snapshot_ref, snapshot, ansi_vars, parser_vars, thread_vars, scan_vars>>

\* mutant: the reset also empties the list returned earlier
ResetStatistics_clears_results ==
    /\ statistics' = reset_statistics(statistics)
    /\ cf_classified' = <<>>
    /\ cf_op' = "reset_statistics"
    /\ tally' = ZeroStatistics
    /\ single_calls' = 0
    /\ snapshot' = SnapshotWhen(statistics')
    /\ UNCHANGED <<cf_findings, cf_given, cf_calls, snapshot_ref,
                   ansi_vars, finding_vars, parser_vars, thread_vars, scan_vars>>

\* a call of reset_statistics
ResetStatistics ==
    /\ statistics' = reset_statistics(statistics)
    /\ cf_op' = "reset_statistics"
    /\ tally' = ZeroStatistics
    /\ single_calls' = 0
    /\ snapshot' = SnapshotWhen(statistics')
    /\ UNCHANGED <<cf_findings, cf_given, cf_classified, cf_calls, snapshot_ref,
                   ansi_vars, finding_vars, parser_vars, thread_vars, scan_vars>>

\* a call of get_statistics; the caller keeps what it returns
GetStatistics ==
    /\ cf_op # "get_statistics"
    /\ LET returned == get_statistics(statistics)
       IN  /\ snapshot_ref' = returned.ref
           /\ snapshot' = returned.value
    /\ cf_op' = "get_statistics"
    /\ UNCHANGED <<statistics, cf_findings, cf_given, cf_classified, cf_calls, tally, single_calls,
                   ansi_vars, finding_vars, parser_vars, thread_vars, scan_vars>>

\* the values a caller writes into the dict it was given
WrittenValues == {-1}

\* the caller of get_statistics writes into the dict it was given; the write
\* goes to self.statistics when that is the dict
ModifySnapshot ==
    /\ snapshot_ref # "none"
    /\ \E s \in {"critical", "info"}, v \in WrittenValues :
        /\ snapshot' = [snapshot EXCEPT ![s] = v]
        /\ statistics' = IF snapshot_ref = "statistics"
                         THEN [statistics EXCEPT ![s] = v]
                         ELSE statistics
    /\ cf_op' = "modify_snapshot"
    /\ UNCHANGED <<cf_findings, cf_given, cf_classified, cf_calls, tally, single_calls, snapshot_ref,
                   ansi_vars, finding_vars, parser_vars, thread_vars, scan_vars>>

(***************************************************************************)
(* Threads that call classify_findings on one classifier.  The code takes  *)
(* no lock: self.statistics[severity.value] += 1 reads the counter and     *)
(* then writes it, and another thread may run between the two.             *)
(***************************************************************************)
Threads == {1, 2}

ThreadLists == {list \in FindingLists : Len(list) <= 2}

InitThreads ==
    /\ t_pc = [t \in Threads |-> "idle"]
    /\ t_findings = [t \in Threads |-> <<>>]
    /\ t_index = [t \in Threads |-> 1]
    /\ t_severity = [t \in Threads |-> "unset"]
    /\ t_loaded = [t \in Threads |-> 0]
    /\ t_classified = [t \in Threads |-> <<>>]

\* the loop goes to its next finding, or ends
LoopAt(list, i) == IF i <= Len(list) THEN "classify" ELSE "sort"

\* thread t calls classify_findings: classified = []
ThreadCall(t) ==
    /\ t_pc[t] = "idle"
    /\ \E list \in ThreadLists :
        /\ t_findings' = [t_findings EXCEPT ![t] = list]
        /\ t_pc' = [t_pc EXCEPT ![t] = LoopAt(list, 1)]
    /\ t_index' = [t_index EXCEPT ![t] = 1]
    /\ t_classified' = [t_classified EXCEPT ![t] = <<>>]
    /\ UNCHANGED <<t_severity, t_loaded, ansi_vars, finding_vars, classifier_vars, parser_vars, scan_vars>>

\* the body of the loop up to classified.append
ThreadClassify(t) ==
    /\ t_pc[t] = "classify"
    /\ LET f == t_findings[t][t_index[t]]
           sev == SeverityOf[f]
       IN  /\ t_severity' = [t_severity EXCEPT ![t] = sev]
           /\ t_classified' = [t_classified EXCEPT ![t] = Append(@, WithSeverity(f, sev))]
    /\ t_pc' = [t_pc EXCEPT ![t] = "load"]
    /\ UNCHANGED <<t_findings, t_index, t_loaded, ansi_vars, finding_vars, classifier_vars, parser_vars, scan_vars>>

\* self.statistics[severity.value] += 1, the read
ThreadLoad(t) ==
    /\ t_pc[t] = "load"
    /\ t_loaded' = [t_loaded EXCEPT ![t] = statistics[t_severity[t]]]
    /\ t_pc' = [t_pc EXCEPT ![t] = "store"]
    /\ UNCHANGED <<t_findings, t_index, t_severity, t_classified,
                   ansi_vars, finding_vars, classifier_vars, parser_vars, scan_vars>>

\* self.statistics[severity.value] += 1, the write
ThreadStore(t) ==
    /\ t_pc[t] = "store"
    /\ statistics' = [statistics EXCEPT ![t_severity[t]] = t_loaded[t] + 1]
    /\ t_index' = [t_index EXCEPT ![t] = @ + 1]
    /\ t_pc' = [t_pc EXCEPT ![t] = LoopAt(t_findings[t], t_index[t] + 1)]
    /\ UNCHANGED <<t_findings, t_severity, t_loaded, t_classified,
                   cf_findings, cf_given, cf_classified, cf_calls, cf_op, tally, single_calls,
                   snapshot_ref, snapshot, ansi_vars, finding_vars, parser_vars, scan_vars>>

\* classified.sort(...) and return
ThreadSort(t) ==
    /\ t_pc[t] = "sort"
    /\ t_classified' = [t_classified EXCEPT ![t] = SortBySeverity(@)]
    /\ t_pc' = [t_pc EXCEPT ![t] = "done"]
    /\ UNCHANGED <<t_findings, t_index, t_severity, t_loaded,
                   ansi_vars, finding_vars, classifier_vars, parser_vars, scan_vars>>

(***************************************************************************)
(* Raw outputs: every short text over a few symbols, one text per          *)
(* hardening index, and reports with many warnings and suggestions.        *)
(***************************************************************************)
SmallAlphabet == {"Hardening index", ":", " ", "\n", "8", "0", "[WARNING]", "x"}

SmallTexts == SeqsUpTo(SmallAlphabet, MaxTextLen)

\* the hardening index is a score from 0 to 100
MaxScore == 100

ScoreTexts ==
    {<<"Hardening index", " ", ":", " ">> \o str(n) \o <<"\n">> : n \in 0..MaxScore}

\* the lines of warnings first..n of a report
RECURSIVE WarningLines(_, _)
WarningLines(first, n) ==
    IF first > n THEN <<>>
    ELSE <<"[WARNING]", ":", " ", "x">> \o str(first) \o <<"\n">> \o WarningLines(first + 1, n)

\* the entries of suggestions first..n of a report; the odd ones have a
\* detail line
RECURSIVE SuggestionLines(_, _)
SuggestionLines(first, n) ==
    IF first > n THEN <<>>
    ELSE <<" ", "*", " ", "y">> \o str(first) \o <<" ", "[", "F", "-">> \o str(first) \o <<"]", "\n">>
            \o (IF first % 2 = 1 THEN <<" ", " ", "-", " ", "d", "\n">> ELSE <<>>)
            \o SuggestionLines(first + 1, n)

\* a report with hardening index h (None: no such line), nw warnings and
\* ns suggestions, the index line coloured
Report(h, nw, ns) ==
    (IF h = None THEN <<>>
     ELSE <<ESC, "[", "1", ";", "3", "1", "m", "Hardening index", ESC, "[", "0", "m", " ", ":", " ">>
            \o str(h.value) \o <<"\n">>)
    \o WarningLines(1, nw)
    \o <<"Suggestions", ":", "\n">> \o SuggestionLines(1, ns) \o <<"\n", "Follow-up:", "\n">>

WarningCounts ==
    {0, 1} \cup ((MAX_WARNINGS_DISPLAY - 1)..(MAX_WARNINGS_DISPLAY + MaxExtra))

SuggestionCounts ==
    {0, 1} \cup ((MAX_SUGGESTIONS_DISPLAY - 1)..(MAX_SUGGESTIONS_DISPLAY + MaxExtra))

ReportTexts ==
    {Report(h, nw, ns) : h \in {None, Some(72)}, nw \in WarningCounts, ns \in SuggestionCounts}

\* detail line i of an entry
DetailText(i) == <<"d">> \o str(i)

\* the detail lines first..n of an entry, an empty line after the first one
\* when blank is true
RECURSIVE DetailLines(_, _, _)
DetailLines(first, n, blank) ==
    IF first > n THEN <<>>
    ELSE <<" ", " ", "-", " ">> \o DetailText(first) \o <<"\n">>
            \o (IF blank /\ first = 1 THEN <<" ", "\n">> ELSE <<>>)
            \o DetailLines(first + 1, n, blank)

\* a suggestions section whose first entry has k detail lines, followed by
\* another entry when more is true
DetailReport(k, more, blank) ==
    <<"Suggestions", ":", "\n", " ", "*", " ", "y", " ", "[", "F", "-", "1", "]", "\n">>
    \o DetailLines(1, k, blank)
    \o (IF more THEN <<" ", "*", " ", "z", " ", "[", "G", "-", "2", "]", "\n">> ELSE <<>>)
    \o <<"\n", "Follow-up:", "\n">>

DetailCounts == 0..(MAX_SUGGESTION_DETAILS + MaxExtra)

DetailTexts ==
    {DetailReport(k, more, blank) : k \in DetailCounts, more \in BOOLEAN, blank \in BOOLEAN}

\* the line of a summary field with value v, no line when v is None
SummaryLine(label, v) ==
    IF v = None THEN <<>> ELSE <<label, " ", ":", " ">> \o str(v.value) \o <<"\n">>

\* a text with up to two lines for each summary field
SummaryText(h, t, p, h2, t2, p2) ==
    SummaryLine("Hardening index", h) \o SummaryLine("Tests performed", t)
    \o SummaryLine("Plugins enabled", p) \o SummaryLine("Hardening index", h2)
    \o SummaryLine("Tests performed", t2) \o SummaryLine("Plugins enabled", p2)

SummaryValues == {None, Some(0), Some(25)}

SummaryTexts ==
    {SummaryText(h, t, p, h2, t2, p2) :
        h \in SummaryValues, t \in SummaryValues, p \in SummaryValues,
        h2 \in SummaryValues, t2 \in SummaryValues, p2 \in SummaryValues}

SystemInfoLabels ==
    <<"Operating system name:", "Operating system version:", "Kernel version:",
      "Hostname:", "Hardware platform:">>

\* the line of label number n: none, the label alone, or the label and a
\* value
SystemInfoLine(n, how) ==
    CASE how = "absent" -> <<>>
      [] how = "empty" -> <<SystemInfoLabels[n], "\n">>
      [] how = "value" -> <<SystemInfoLabels[n], " ", " ", "v">> \o str(n) \o <<" ", "\n">>

SystemInfoText(how) ==
    SystemInfoLine(1, how[1]) \o SystemInfoLine(2, how[2]) \o SystemInfoLine(3, how[3])
    \o SystemInfoLine(4, how[4]) \o SystemInfoLine(5, how[5])

SystemInfoTexts ==
    {SystemInfoText(how) : how \in [1..5 -> {"absent", "empty", "value"}]}

ComponentAlphabet ==
    {"Software components:", "Files:", "Firewall", " ", "[V]", "[X]"}

\* every short text about the firewall
ComponentTexts == SeqsUpTo(ComponentAlphabet, MaxTextLen + 1)

\* the line of a component: none, installed or not installed
ComponentLine(label, how) ==
    IF how = "absent" THEN <<>> ELSE <<" ", "-", " ", label, " ", " ", how, "\n">>

\* a report with an installed firewall before the section when before is
\* true, the section when there is true, and an installed malware scanner
\* after the Files: marker when after is true
ComponentReport(before, there, fw, is, ms, after) ==
    (IF before THEN ComponentLine("Firewall", "[V]") ELSE <<>>)
    \o (IF there THEN <<"software components:", "\n">> ELSE <<>>)
    \o ComponentLine("Firewall", fw) \o ComponentLine("Intrusion software", is)
    \o ComponentLine("Malware scanner", ms)
    \o <<"Files:", "\n">>
    \o (IF after THEN ComponentLine("Malware scanner", "[V]") ELSE <<>>)

ComponentMarks == {"absent", "[V]", "[X]"}

ComponentReports ==
    {ComponentReport(before, there, fw, is, ms, after) :
        before \in BOOLEAN, there \in BOOLEAN, fw \in ComponentMarks,
        is \in ComponentMarks, ms \in ComponentMarks, after \in BOOLEAN}

RawOutputs ==
    SmallTexts \cup ScoreTexts \cup ReportTexts \cup DetailTexts \cup SummaryTexts
        \cup SystemInfoTexts \cup ComponentTexts \cup ComponentReports

InitParser ==
    /\ raw_output \in RawOutputs
    /\ parsed_data = <<>>
    /\ formatted = <<>>
    /\ parser_pc = "start"

InitParserIdle ==
    /\ raw_output = <<>>
    /\ parsed_data = <<>>
    /\ formatted = <<>>
    /\ parser_pc = "start"

\* a call of parse
Parse ==
    /\ parser_pc = "start"
    /\ parsed_data' = parse(raw_output)
    /\ parser_pc' = "parsed"
    /\ UNCHANGED <<raw_output, formatted, ansi_vars, finding_vars, classifier_vars, thread_vars, scan_vars>>

\* a call of format_for_display on what parse returned
FormatForDisplay ==
    /\ parser_pc = "parsed"
    /\ formatted' = format_for_display(parsed_data)
    /\ parser_pc' = "formatted"
    /\ UNCHANGED <<raw_output, parsed_data, ansi_vars, finding_vars, classifier_vars, thread_vars, scan_vars>>

(***************************************************************************)
(* ScanService (src/services/scan_service.py) and the one LynisScanner it  *)
(* shares among its scan threads (scanner.py).  Request handlers call      *)
(* create_scan_job, start_scan and cancel_job; every scan thread runs      *)
(* _run_scan_thread; the statements of different threads interleave.       *)
(***************************************************************************)
MaxJobs == 2

MaxThreads == 2

MaxStarts == 2

\* config/settings.py
MAX_CONCURRENT_SCANS == 1

TerminalStatuses == {"completed", "failed", "cancelled"}

\* ScanJob.__init__
ScanJob == [status |-> "pending", thread |-> FALSE, result |-> FALSE, error_message |-> ""]

\* a thread start_scan created for the job of scan id j, not yet running
ScanThread(j) == [job |-> j, pc |-> "started", process |-> "none", raised |-> FALSE]

NoCancel == [pc |-> "idle", scan_id |-> 0, returned |-> "none"]

\* ScanService.__init__ and LynisScanner.__init__
InitScanService ==
    /\ jobs = <<>>
    /\ _jobs = {}
    /\ scan_threads = <<>>
    /\ scan_process = 0
    /\ cancel = NoCancel
    /\ start_scan_calls = [j \in 1..MaxJobs |-> 0]
    /\ start_scan_returned = "none"
    /\ terminated_for = [t \in 1..MaxThreads |-> 0]
    /\ cancelled_jobs = {}

CreateScanJob ==
    /\ Len(jobs) < MaxJobs
    /\ jobs' = Append(jobs, ScanJob)
    /\ _jobs' = _jobs \cup {Len(jobs) + 1}
    /\ UNCHANGED <<scan_threads, scan_process, cancel, start_scan_calls,
                   start_scan_returned, terminated_for, cancelled_jobs, utils_vars>>

\* start_scan(job) on a job some caller holds; thread.start() either starts
\* the thread or raises
StartScan(j) ==
    /\ j \in 1..Len(jobs)
    /\ start_scan_calls[j] < MaxStarts
    /\ start_scan_calls' = [start_scan_calls EXCEPT ![j] = @ + 1]
    /\ IF jobs[j].status # "pending"
       THEN /\ start_scan_returned' = "False"
            /\ UNCHANGED <<jobs, scan_threads>>
       ELSE \/ /\ Len(scan_threads) < MaxThreads
               /\ jobs' = [jobs EXCEPT ![j].thread = TRUE]
               /\ scan_threads' = Append(scan_threads, ScanThread(j))
               /\ start_scan_returned' = "True"
            \/ /\ jobs' = [jobs EXCEPT ![j].thread = TRUE,
                                       ![j].status = "failed",
                                       ![j].error_message = "Failed to start scan thread"]
               /\ start_scan_returned' = "False"
               /\ UNCHANGED scan_threads
    /\ UNCHANGED <<_jobs, scan_process, cancel, terminated_for, cancelled_jobs, utils_vars>>

\* _cleanup_old_jobs: the finished jobs that are old enough leave _jobs
CleanupOldJobs ==
    /\ \E old \in (SUBSET {j \in _jobs : jobs[j].status \in TerminalStatuses}) \ {{}} :
           _jobs' = _jobs \ old
    /\ UNCHANGED <<jobs, scan_threads, scan_process, cancel, start_scan_calls,
                   start_scan_returned, terminated_for, cancelled_jobs, utils_vars>>

\* _run_scan_thread, first statements: job.status = "running"
ThreadRunning(t) ==
    /\ t \in 1..Len(scan_threads)
    /\ scan_threads[t].pc = "started"
    /\ jobs' = [jobs EXCEPT ![scan_threads[t].job].status = "running"]
    /\ scan_threads' = [scan_threads EXCEPT ![t].pc = "run_scan"]
    /\ UNCHANGED <<_jobs, scan_process, cancel, start_scan_calls,
                   start_scan_returned, terminated_for, cancelled_jobs, utils_vars>>

\* run_scan raises before the subprocess is opened (environment, Lynis not
\* installed, preparation, privilege escalation): the except branch of
\* _run_scan_thread
RunScanRaises(t) ==
    /\ t \in 1..Len(scan_threads)
    /\ scan_threads[t].pc = "run_scan"
    /\ jobs' = [jobs EXCEPT ![scan_threads[t].job].status = "failed",
                            ![scan_threads[t].job].error_message = "RuntimeError"]
    /\ scan_threads' = [scan_threads EXCEPT ![t].pc = "done", ![t].raised = TRUE]
    /\ UNCHANGED <<_jobs, scan_process, cancel, start_scan_calls,
                   start_scan_returned, terminated_for, cancelled_jobs, utils_vars>>

\* _execute_lynis: self.scan_process = subprocess.Popen(...)
Popen(t) ==
    /\ t \in 1..Len(scan_threads)
    /\ scan_threads[t].pc = "run_scan"
    /\ scan_threads' = [scan_threads EXCEPT ![t].pc = "communicate",
                                            ![t].process = "executing"]
    /\ scan_process' = t
    /\ UNCHANGED <<jobs, _jobs, cancel, start_scan_calls,
                   start_scan_returned, terminated_for, cancelled_jobs, utils_vars>>

\* the audit subprocess of thread t ends by itself
ProcessExits(t) ==
    /\ t \in 1..Len(scan_threads)
    /\ scan_threads[t].process = "executing"
    /\ scan_threads' = [scan_threads EXCEPT ![t].process = "exited"]
    /\ UNCHANGED <<jobs, _jobs, scan_process, cancel, start_scan_calls,
                   start_scan_returned, terminated_for, cancelled_jobs, utils_vars>>

\* _execute_lynis: communicate returns once the subprocess it was called on
\* has ended, whatever ended it; self.scan_process.returncode then raises
\* AttributeError when self.scan_process is None by now
Communicate(t) ==
    /\ t \in 1..Len(scan_threads)
    /\ scan_threads[t].pc = "communicate"
    /\ scan_threads[t].process # "executing"
    /\ scan_threads' = [scan_threads EXCEPT ![t].pc = "finally",
                                            ![t].raised = (scan_process = 0)]
    /\ UNCHANGED <<jobs, _jobs, scan_process, cancel, start_scan_calls,
                   start_scan_returned, terminated_for, cancelled_jobs, utils_vars>>

\* _execute_lynis: communicate times out; the handler kills the subprocess
\* self.scan_process refers to now and raises
CommunicateTimeout(t) ==
    /\ t \in 1..Len(scan_threads)
    /\ scan_threads[t].pc = "communicate"
    /\ scan_threads[t].process = "executing"
    /\ scan_threads' =
           [u \in 1..Len(scan_threads) |->
               [scan_threads[u] EXCEPT
                   !.process = IF u = scan_process /\ @ = "executing" THEN "killed" ELSE @,
                   !.pc = IF u = t THEN "finally" ELSE @,
                   !.raised = IF u = t THEN TRUE ELSE @]]
    /\ UNCHANGED <<jobs, _jobs, scan_process, cancel, start_scan_calls,
                   start_scan_returned, terminated_for, cancelled_jobs, utils_vars>>

\* _execute_lynis, finally: self.scan_process = None
Finally(t) ==
    /\ t \in 1..Len(scan_threads)
    /\ scan_threads[t].pc = "finally"
    /\ scan_process' = 0
    /\ scan_threads' = [scan_threads EXCEPT ![t].pc = "result"]
    /\ UNCHANGED <<jobs, _jobs, cancel, start_scan_calls,
                   start_scan_returned, terminated_for, cancelled_jobs, utils_vars>>

\* _run_scan_thread after run_scan: job.result and job.status = "completed",
\* or, when run_scan raised, job.status = "failed"
Result(t) ==
    /\ t \in 1..Len(scan_threads)
    /\ scan_threads[t].pc = "result"
    /\ jobs' = IF scan_threads[t].raised
               THEN [jobs EXCEPT ![scan_threads[t].job].status = "failed",
                                 ![scan_threads[t].job].error_message = "RuntimeError"]
               ELSE [jobs EXCEPT ![scan_threads[t].job].status = "completed",
                                 ![scan_threads[t].job].result = TRUE]
    /\ scan_threads' = [scan_threads EXCEPT ![t].pc = "done"]
    /\ UNCHANGED <<_jobs, scan_process, cancel, start_scan_calls,
                   start_scan_returned, terminated_for, cancelled_jobs, utils_vars>>

\* cancel_job(scan_id) up to the call of cancel_scan
CancelJob(id) ==
    /\ id \in 1..Len(jobs)
    /\ cancel.pc = "idle"
    /\ cancel' = IF id \in _jobs /\ jobs[id].status = "running" /\ jobs[id].thread
                 THEN [pc |-> "cancel_scan", scan_id |-> id, returned |-> "none"]
                 ELSE [pc |-> "idle", scan_id |-> id, returned |-> "False"]
    /\ UNCHANGED <<jobs, _jobs, scan_threads, scan_process, start_scan_calls,
                   start_scan_returned, terminated_for, cancelled_jobs, utils_vars>>

\* cancel_scan: the test of self.scan_process and terminate()
CancelScan ==
    /\ cancel.pc = "cancel_scan"
    /\ IF scan_process # 0 /\ scan_threads[scan_process].process = "executing"
       THEN /\ scan_threads' = [scan_threads EXCEPT ![scan_process].process = "terminated"]
            /\ terminated_for' = [terminated_for EXCEPT ![scan_process] = cancel.scan_id]
            /\ cancel' = [cancel EXCEPT !.pc = "wait"]
       ELSE /\ cancel' = [cancel EXCEPT !.pc = "idle", !.returned = "False"]
            /\ UNCHANGED <<scan_threads, terminated_for>>
    /\ UNCHANGED <<jobs, _jobs, scan_process, start_scan_calls,
                   start_scan_returned, cancelled_jobs, utils_vars>>

\* cancel_scan: self.scan_process.wait(timeout=10) on what self.scan_process
\* refers to now; None has no wait, and a subprocess that does not end in
\* time is killed
CancelScanWait ==
    /\ cancel.pc = "wait"
    /\ IF scan_process = 0
       THEN /\ cancel' = [cancel EXCEPT !.pc = "idle", !.returned = "AttributeError"]
            /\ UNCHANGED <<scan_threads, terminated_for>>
       ELSE IF scan_threads[scan_process].process = "executing"
       THEN /\ scan_threads' = [scan_threads EXCEPT ![scan_process].process = "killed"]
            /\ terminated_for' = [terminated_for EXCEPT ![scan_process] = cancel.scan_id]
            /\ cancel' = [cancel EXCEPT !.pc = "mark"]
       ELSE /\ cancel' = [cancel EXCEPT !.pc = "mark"]
            /\ UNCHANGED <<scan_threads, terminated_for>>
    /\ UNCHANGED <<jobs, _jobs, scan_process, start_scan_calls,
                   start_scan_returned, cancelled_jobs, utils_vars>>

\* cancel_job after cancel_scan returned True
CancelMark ==
    /\ cancel.pc = "mark"
    /\ jobs' = [jobs EXCEPT ![cancel.scan_id].status = "cancelled",
                            ![cancel.scan_id].error_message = "Scan cancelled by user"]
    /\ cancel' = [cancel EXCEPT !.pc = "idle", !.returned = "True"]
    /\ cancelled_jobs' = cancelled_jobs \cup {cancel.scan_id}
    /\ UNCHANGED <<_jobs, scan_threads, scan_process, start_scan_calls,
                   start_scan_returned, terminated_for, utils_vars>>

(***************************************************************************)
(* The specifications.                                                     *)
(***************************************************************************)
NextAnsi == StripAnsiCodes \/ StripAgain

InitSpecAnsi ==
    InitAnsi /\ InitFindingIdle /\ InitClassifier /\ InitParserIdle /\ InitThreads
    /\ InitScanService

SpecAnsi == InitSpecAnsi /\ [][NextAnsi]_vars

NextFinding == ClassifyFinding

InitSpecFinding ==
    InitAnsiIdle /\ InitFinding /\ InitClassifier /\ InitParserIdle /\ InitThreads
    /\ InitScanService

SpecFinding == InitSpecFinding /\ [][NextFinding]_vars

NextClassifier == ClassifyFindings \/ ResetStatistics

InitSpecClassifier ==
    InitAnsiIdle /\ InitFindingIdle /\ InitClassifier /\ InitParserIdle /\ InitThreads
    /\ InitScanService

NextParser == Parse \/ FormatForDisplay

InitSpecParser ==
    InitAnsiIdle /\ InitFindingIdle /\ InitClassifier /\ InitParser /\ InitThreads
    /\ InitScanService

SpecParser == InitSpecParser /\ [][NextParser]_vars

SpecClassifier == InitSpecClassifier /\ [][NextClassifier]_vars

\* every call on one classifier, one after the other
NextLifecycle == ClassifyOne \/ ClassifyFindingsSingle \/ ResetStatistics

SpecLifecycle == InitSpecClassifier /\ [][NextLifecycle]_vars

\* calls on one classifier and a caller that keeps what get_statistics returns
NextSnapshot ==
    ClassifyFindingsSingle \/ ResetStatistics \/ GetStatistics \/ ModifySnapshot

SpecSnapshot == InitSpecClassifier /\ [][NextSnapshot]_vars

\* two threads, each calling classify_findings once
NextThreads ==
    \E t \in Threads :
        ThreadCall(t) \/ ThreadClassify(t) \/ ThreadLoad(t) \/ ThreadStore(t) \/ ThreadSort(t)

SpecThreads == InitSpecClassifier /\ [][NextThreads]_vars

\* requests to one ScanService and the scan threads it started
NextScans ==
    \/ CreateScanJob
    \/ CleanupOldJobs
    \/ CancelScan
    \/ CancelScanWait
    \/ CancelMark
    \/ \E j \in 1..MaxJobs : StartScan(j) \/ CancelJob(j)
    \/ \E t \in 1..MaxThreads :
           \/ ThreadRunning(t)
           \/ RunScanRaises(t)
           \/ Popen(t)
           \/ ProcessExits(t)
           \/ Communicate(t)
           \/ CommunicateTimeout(t)
           \/ Finally(t)
           \/ Result(t)

SpecScans == InitSpecClassifier /\ [][NextScans]_vars


(***************************************************************************)
(* Escape spans, stated without the scan: s[i..j] is ESC [ params m.       *)
(***************************************************************************)
IsEscapeSpan(s, i, j) ==
    /\ 1 <= i /\ i + 2 <= j /\ j <= Len(s)
    /\ s[i] = ESC /\ s[i + 1] = "[" /\ s[j] = "m"
    /\ \A k \in (i + 2)..(j - 1) : IsAnsiParam(s[k])

HasEscapeSpan(s) == \E i, j \in 1..Len(s) : IsEscapeSpan(s, i, j)

\* the positions of s inside some escape span
InEscapeSpan(s) ==
    {k \in 1..Len(s) : \E i \in 1..k, j \in k..Len(s) : IsEscapeSpan(s, i, j)}

\* s restricted to the positions of K, in order
Restrict(s, K) ==
    [n \in 1..Cardinality(K) |->
        s[CHOOSE k \in K : Cardinality({x \in K : x <= k}) = n]]

\* C1: strip_ansi_codes is idempotent: a second pass over the result of a
\* first pass returns it unchanged (the result of one pass holds no span
\* ESC [ params m).
C1_StripIdempotent ==
    ansi_calls = 2 => ansi_clean = ansi_text /\ ~HasEscapeSpan(ansi_text)

\* C2: the result of strip_ansi_codes is the input with exactly the escape
\* spans removed: every symbol outside the spans is kept, in order, and
\* nothing is added.
C2_StripLossless ==
    ansi_calls = 1 =>
        ansi_clean = Restrict(ansi_text, (1..Len(ansi_text)) \ InEscapeSpan(ansi_text))

\* a call that removed two spans and kept text before, between and after them
C2_Witness ==
    /\ ansi_calls = 1
    /\ ansi_text = <<"x", ESC, "[", "m", ESC, "[">>
    /\ ansi_clean = <<"x", ESC, "[">>


(***************************************************************************)
(* Claims about parse and format_for_display.                              *)
(***************************************************************************)
\* C3: parse("") returns the record with the five keys in which the three
\* summary fields are None, warnings and suggestions are empty, the five
\* system_info fields are None and the three components are false.
C3_EmptyInputAllAbsent ==
    (parser_pc # "start" /\ raw_output = <<>>) =>
        parsed_data =
            [summary |-> [hardening_index |-> None, tests_performed |-> None,
                          plugins_enabled |-> None],
             warnings |-> <<>>,
             suggestions |-> <<>>,
             system_info |-> [os_name |-> None, os_version |-> None,
                              kernel_version |-> None, hostname |-> None,
                              hardware_platform |-> None],
             security_components |-> [firewall |-> FALSE, intrusion_software |-> FALSE,
                                      malware_scanner |-> FALSE]]

\* parse has returned on the empty text
C3_Witness == parser_pc = "parsed" /\ raw_output = <<>>

\* C4: format_for_display returns a bundle, and raises nothing, for every
\* record parse returns, a record without hardening index included.
C4_FormatNeverRaises == parser_pc = "formatted" => formatted.raised = ""

\* C5: in the bundle score.hardening_index is 0 and score.display is "0/100"
\* when the parsed hardening_index is None, and n and "n/100" when it is n.
C5_AbsentIndexDefaultsToZero ==
    parser_pc = "formatted" =>
        LET n == IF parsed_data.summary.hardening_index = None THEN 0
                 ELSE parsed_data.summary.hardening_index.value
        IN  /\ formatted.raised = ""
            /\ formatted.value.score.hardening_index = Some(n)
            /\ formatted.value.score.display = str(n) \o <<"/", "1", "0", "0">>

\* C6: the status of a bundle is excellent from 80 on, good from 60 to 79,
\* fair from 40 to 59 and poor below 40, and one of these four values.
C6_ScoreStatusTable ==
    (parser_pc = "formatted" /\ formatted.raised = "") =>
        LET n == formatted.value.score.hardening_index.value
            status == formatted.value.score.status
        IN  /\ status \in {"excellent", "good", "fair", "poor"}
            /\ (status = "excellent") = (n >= 80)
            /\ (status = "good") = (60 <= n /\ n <= 79)
            /\ (status = "fair") = (40 <= n /\ n <= 59)
            /\ (status = "poor") = (n < 40)

\* the bundle of a report whose hardening index is 80
C6_Witness ==
    /\ parser_pc = "formatted" /\ formatted.raised = ""
    /\ formatted.value.score.hardening_index = Some(80)
    /\ formatted.value.score.status = "excellent"

\* C7: for every parsed report format_for_display returns the first
\* min(w, 10) warnings and the first min(s, 20) suggestions, in order.
C7_DisplayCaps ==
    parser_pc = "formatted" =>
        /\ formatted.raised = ""
        /\ LET w == parsed_data.warnings
               s == parsed_data.suggestions
               shown == formatted.value.findings
           IN  /\ Len(shown.warnings) = Min(Len(w), 10)
               /\ Len(shown.suggestions) = Min(Len(s), 20)
               /\ \A i \in 1..Len(shown.warnings) : shown.warnings[i] = w[i]
               /\ \A i \in 1..Len(shown.suggestions) : shown.suggestions[i] = s[i]

(***************************************************************************)
(* Claims about the classifier.                                            *)
(***************************************************************************)
WithoutSeverity(x) == [k \in DOMAIN x \ {"severity", "severity_level"} |-> x[k]]

\* the elements of list that satisfy Test, in order
Keep(list, Test(_)) == SelectSeq(list, Test)

\* C8: classify_findings returns the stable sort of its input by severity
\* level: same length, same findings, severity_level non-decreasing, and the
\* findings of one severity in the order they have in the input.
C8_StableSortBySeverity ==
    cf_calls > 0 =>
        /\ Len(cf_classified) = Len(cf_findings)
        /\ \A i \in 1..Len(cf_classified) : {"severity", "severity_level"} \subseteq DOMAIN cf_classified[i]
        /\ \A i, j \in 1..Len(cf_classified) :
              i < j => cf_classified[i]["severity_level"] <= cf_classified[j]["severity_level"]
        /\ \A s \in Severities :
              LET HasOut(x) == x["severity"] = s
                  HasIn(f) == SeverityOf[f] = s
                  out == SelectSeq(cf_classified, HasOut)
              IN  [i \in 1..Len(out) |-> WithoutSeverity(out[i])] = SelectSeq(cf_findings, HasIn)
        /\ \A i \in 1..Len(cf_classified) : cf_classified[i]["severity"] \in Severities

\* a call that moved a critical finding in front of two distinct findings of
\* one severity, which kept their order
C8_Witness ==
    /\ cf_calls > 0
    /\ Len(cf_findings) = 3
    /\ SeverityOf[cf_findings[1]] = "medium"
    /\ SeverityOf[cf_findings[2]] = "medium"
    /\ cf_findings[1] # cf_findings[2]
    /\ SeverityOf[cf_findings[3]] = "critical"
    /\ WithoutSeverity(cf_classified[1]) = cf_findings[3]
    /\ WithoutSeverity(cf_classified[2]) = cf_findings[1]
    /\ WithoutSeverity(cf_classified[3]) = cf_findings[2]

\* C9: a finding of type 'suggestion' whose message holds a critical keyword
\* is classified high, never critical, whatever else the message holds.
C9_SuggestionDemoted ==
    (/\ severity # "unset"
     /\ Get(finding, "type", <<>>) = STR_suggestion
     /\ AnyKeyword(CRITICAL_KEYWORDS, lower(finding["message"])))
        => severity = "high"

\* C10: a finding of type 'warning' is classified critical, high or medium,
\* whatever its message.
C10_WarningAtLeastMedium ==
    (severity # "unset" /\ Get(finding, "type", <<>>) = STR_warning)
        => severity \in {"critical", "high", "medium"}

\* a warning without any keyword or file pattern, classified medium
C10_Witness ==
    /\ severity = "medium"
    /\ finding = MakeFinding(STR_warning, <<"o","k">>)

\* the lower-case form of one character
Fold(c) ==
    IF \E n \in 1..Len(UpperCase) : UpperCase[n] = c
    THEN LowerCase[CHOOSE n \in 1..Len(UpperCase) : UpperCase[n] = c]
    ELSE c

\* word occurs in text, letter case ignored
Occurs(word, text) ==
    \E i \in 1..(Len(text) - Len(word) + 1) :
        \A k \in 1..Len(word) : Fold(text[i + k - 1]) = Fold(word[k])

\* text is word, letter case ignored
IsWord(text, word) == Len(text) = Len(word) /\ Occurs(word, text)

OccursAny(words, text) == \E n \in 1..Len(words) : Occurs(words[n], text)

\* the result of the first rule whose condition holds
RECURSIVE FirstMatch(_)
FirstMatch(rules) ==
    IF rules[1].when THEN rules[1].then ELSE FirstMatch(Tail(rules))

\* the policy as a table of rules, first match wins
Policy(f) ==
    LET text == Get(f, "message", <<>>)
        type == Get(f, "type", <<>>)
        warning == IsWord(type, STR_warning) \/ Occurs(STR_warning, text)
        suggestion == IsWord(type, STR_suggestion) \/ Occurs(STR_suggest, text)
        general == ~warning /\ ~suggestion
        critical_kw == OccursAny(CRITICAL_KEYWORDS, text)
        high_kw == OccursAny(HIGH_KEYWORDS, text)
        medium_kw == OccursAny(MEDIUM_KEYWORDS, text)
        low_kw == OccursAny(LOW_KEYWORDS, text)
        critical_file == AnyPattern(CRITICAL_FILE_PATTERNS, lower(text))
        high_file == AnyPattern(HIGH_FILE_PATTERNS, lower(text))
    IN  FirstMatch(<<
            [when |-> warning /\ critical_kw,    then |-> "critical"],
            [when |-> warning /\ high_kw,        then |-> "high"],
            [when |-> warning /\ critical_file,  then |-> "critical"],
            [when |-> warning /\ high_file,      then |-> "high"],
            [when |-> warning,                   then |-> "medium"],
            [when |-> suggestion /\ critical_kw, then |-> "high"],
            [when |-> suggestion /\ high_kw,     then |-> "medium"],
            [when |-> suggestion,                then |-> "low"],
            [when |-> general /\ critical_kw,    then |-> "critical"],
            [when |-> general /\ high_kw,        then |-> "high"],
            [when |-> general /\ medium_kw,      then |-> "medium"],
            [when |-> general /\ low_kw,         then |-> "low"],
            [when |-> TRUE,                      then |-> "info"]>>)

\* C11: classify_finding returns what the fixed-precedence policy gives, first
\* match wins: in the warning branch critical keyword, high keyword, critical
\* file path, high file path, else medium; in the suggestion branch critical
\* keyword gives high, high keyword medium, else low; otherwise the keyword
\* lists critical, high, medium, low, else info; keywords are matched as
\* substrings, letter case ignored.
C11_FixedPrecedencePolicy == severity # "unset" => severity = Policy(finding)

\* a warning with a high keyword and a critical file path, classified high
C11_Witness ==
    /\ severity = "high"
    /\ finding = MakeFinding(STR_warning,
            <<"f","i","r","e","w","a","l","l"," ","/","e","t","c","/","s","h","a","d","o","w">>)

\* the number of elements of list equal to x
Count(list, x) == Cardinality({i \in 1..Len(list) : list[i] = x})

\* C12: every element classify_findings returns is an input finding with the
\* severity classify_finding gives that finding and the severity_level of that
\* severity under critical=0, high=1, medium=2, low=3, info=4; the level is in
\* 0..4.
C12_SeverityAndLevelTagged ==
    cf_calls > 0 =>
        \A i \in 1..Len(cf_classified) :
            LET x == cf_classified[i]
                f == WithoutSeverity(x)
            IN  /\ Count(cf_classified, x) = Count(cf_findings, f)
                /\ x["severity"] = SeverityOf[f]
                /\ x["severity_level"] \in 0..4
                /\ <<x["severity"], x["severity_level"]>> \in
                        {<<"critical", 0>>, <<"high", 1>>, <<"medium", 2>>,
                         <<"low", 3>>, <<"info", 4>>}

\* a call that returned a critical, a medium and an info finding
C12_Witness ==
    /\ cf_calls > 0
    /\ Len(cf_classified) = 3
    /\ cf_classified[1]["severity"] = "critical" /\ cf_classified[1]["severity_level"] = 0
    /\ cf_classified[2]["severity"] = "medium" /\ cf_classified[2]["severity_level"] = 2
    /\ cf_classified[3]["severity"] = "info" /\ cf_classified[3]["severity_level"] = 4

\* the sum of the five counters
Total(counters) ==
    counters["critical"] + counters["high"] + counters["medium"]
        + counters["low"] + counters["info"]

\* C13: after any sequence of classify_findings and reset_statistics calls
\* the counter of each severity is the number of findings classify_findings
\* assigned that severity since the last reset, and the five counters add up
\* to the number of findings classified since then.
C13_CountersCumulative ==
    /\ \A s \in Severities : statistics[s] = tally[s]
    /\ Total(statistics) = Total(tally)

\* two calls without a reset between them: the counter of medium holds the
\* findings of both
C13_Witness ==
    /\ cf_calls = 2 /\ cf_op = "classify_findings"
    /\ Len(cf_findings) = 2
    /\ statistics["medium"] = 4

\* C14: reset_statistics sets the five counters to zero and leaves the list
\* an earlier classify_findings call returned as it is: same elements, same
\* severity and severity_level, same order.
C14_ResetOnlyZeroesCounters ==
    [][cf_op' = "reset_statistics" =>
            /\ \A s \in Severities : statistics'[s] = 0
            /\ DOMAIN statistics' = Severities
            /\ cf_classified' = cf_classified
            /\ cf_findings' = cf_findings]_vars

\* a reset after a call that returned three classified findings
C14_Witness ==
    /\ cf_op = "reset_statistics"
    /\ statistics = ZeroStatistics
    /\ Len(cf_classified) = 3
    /\ cf_classified[1]["severity"] = "critical"

\* C15: the classifier is fresh (all counters zero) at first and after a
\* reset, and accumulated (some counter above zero) exactly when a
\* classification was performed since the last reset, through
\* classify_finding or through classify_findings.
C15_FreshOrAccumulated ==
    LET fresh == \A s \in Severities : statistics[s] = 0
        accumulated == \E s \in Severities : statistics[s] > 0
        performed == single_calls + Total(tally)
    IN  /\ fresh # accumulated
        /\ accumulated <=> performed > 0
        /\ cf_op \in {"__init__", "reset_statistics"} => fresh

\* C16: what get_statistics returns is a snapshot: a write of the caller into
\* it leaves the counters of the classifier as they are, and later
\* classify_findings and reset_statistics calls leave the snapshot as it is.
C16_SnapshotIndependent ==
    [][/\ cf_op' = "modify_snapshot" => statistics' = statistics
       /\ cf_op' \in {"classify_findings", "reset_statistics"} => snapshot' = snapshot]_vars

\* a snapshot taken after one medium finding, written to by the caller, and
\* still the same after a reset of the classifier
C16_Witness ==
    /\ snapshot_ref = "copy"
    /\ cf_op = "reset_statistics"
    /\ statistics = ZeroStatistics
    /\ snapshot["medium"] = 1
    /\ snapshot["critical"] = -1

\* the findings the calls of the threads were given that have severity s
GivenBy(t, s) ==
    Cardinality({i \in 1..Len(t_findings[t]) : SeverityOf[t_findings[t][i]] = s})

\* C17: when threads run classify_findings at the same time on one
\* classifier no increment is lost: once all calls have returned each counter
\* is the number of findings of that severity classified by all the threads.
C17_NoLostUpdate ==
    (\A t \in Threads : t_pc[t] = "done") =>
        \A s \in Severities : statistics[s] = GivenBy(1, s) + GivenBy(2, s)

\* every finding of list carries severity and severity_level, and the levels
\* do not decrease along list
ClassifiedAndSorted(list) ==
    /\ \A i \in 1..Len(list) : {"severity", "severity_level"} \subseteq DOMAIN list[i]
    /\ \A i, j \in 1..Len(list) :
            i < j => list[i]["severity_level"] <= list[j]["severity_level"]

\* C18: the findings of the bundle that parse followed by format_for_display
\* builds went through classify_findings before they were cut to 10 and 20:
\* each displayed warning and suggestion carries severity and severity_level
\* and each displayed list is in non-decreasing severity_level order.
C18_ClassifiedBeforeTruncation ==
    (parser_pc = "formatted" /\ formatted.raised = "") =>
        /\ ClassifiedAndSorted(formatted.value.findings.warnings)
        /\ ClassifiedAndSorted(formatted.value.findings.suggestions)

\* C19: every suggestion parse produces has type 'suggestion' and a test_id,
\* and classify_finding puts it in the suggestion branch: high, medium or low.
C19_ParsedSuggestionTyped ==
    parser_pc # "start" =>
        \A i \in 1..Len(parsed_data.suggestions) :
            LET suggestion == parsed_data.suggestions[i]
            IN  /\ "test_id" \in DOMAIN suggestion
                /\ "type" \in DOMAIN suggestion
                /\ suggestion["type"] = STR_suggestion
                /\ classify_finding(suggestion) \in {"high", "medium", "low"}

\* C20: a suggestion parse produces has at most 3 detail lines; of an entry
\* followed by k non-empty detail lines the first min(k, 3) are kept, in
\* order, and an entry without detail lines has an empty details list.
C20_DetailsCappedAtThree ==
    parser_pc # "start" =>
        /\ \A i \in 1..Len(parsed_data.suggestions) :
                Len(parsed_data.suggestions[i]["details"]) <= 3
        /\ \A k \in DetailCounts, more \in BOOLEAN, blank \in BOOLEAN :
                raw_output = DetailReport(k, more, blank) =>
                    /\ Len(parsed_data.suggestions) = (IF more THEN 2 ELSE 1)
                    /\ LET details == parsed_data.suggestions[1]["details"]
                       IN  /\ Len(details) = Min(k, 3)
                           /\ \A n \in 1..Len(details) :
                                details[n] \in {DetailText(n), <<"-", " ">> \o DetailText(n)}
                    /\ more => parsed_data.suggestions[2]["details"] = <<>>

\* an entry followed by five detail lines and another entry: three are kept
C20_Witness ==
    /\ parser_pc = "parsed"
    /\ raw_output = DetailReport(5, TRUE, FALSE)
    /\ Len(parsed_data.suggestions[1]["details"]) = 3

(***************************************************************************)
(* Claims about the extraction of warnings, summary, system information    *)
(* and security components.                                                *)
(***************************************************************************)
\* every [WARNING] marker of text is the first symbol of a line
MarkersBeginLines(text) ==
    \A i \in 1..Len(text) :
        text[i] \in WarningMarkers => (i = 1 \/ text[i - 1] = "\n")

IsMarkedLine(line) == line # <<>> /\ line[1] \in WarningMarkers

\* the text of a marked line after the marker and its colon, trimmed
AfterMarker(line) ==
    strip(IF Len(line) >= 2 /\ line[2] = ":" THEN SubSeq(line, 3, Len(line))
          ELSE Tail(line))

\* warnings is one warning for each line of marked, in order, each with the
\* text of its line after the marker (the colon counted or not); a line with
\* nothing after the marker and its colon may go without a warning
RECURSIVE OnePerLine(_, _)
OnePerLine(warnings, marked) ==
    IF marked = <<>> THEN warnings = <<>>
    ELSE \/ /\ warnings # <<>>
            /\ warnings[1]["type"] = STR_warning
            /\ warnings[1]["message"] \in {AfterMarker(marked[1]), strip(Tail(marked[1]))}
            /\ OnePerLine(Tail(warnings), Tail(marked))
         \/ /\ AfterMarker(marked[1]) = <<>>
            /\ OnePerLine(warnings, Tail(marked))

\* C21: parse yields one warning (type 'warning') for each line that begins
\* with a [WARNING] marker, in line order, whose message is the text from the
\* marker to the end of that line, trimmed; text of a following line is never
\* taken, also when nothing follows the marker on its line.
C21_OneWarningPerMarkedLine ==
    (parser_pc # "start" /\ MarkersBeginLines(strip_ansi_codes(raw_output))) =>
        OnePerLine(parsed_data.warnings,
                   SelectSeq(split_lines(strip_ansi_codes(raw_output)), IsMarkedLine))

\* the first position from k on that holds no white space (Len(text) + 1
\* when there is none)
NextNonSpace(text, k) ==
    CHOOSE j \in k..(Len(text) + 1) :
        /\ \A n \in k..(j - 1) : IsSpace(text[n])
        /\ j = Len(text) + 1 \/ ~IsSpace(text[j])

\* the last position of the digits that start at q
LastDigit(text, q) ==
    CHOOSE r \in q..Len(text) :
        /\ \A n \in q..r : text[n] \in Digits
        /\ r = Len(text) \/ text[r + 1] \notin Digits

\* text[i] is label, followed by a colon and digits, with nothing but white
\* space between them
IsLabeledNumber(text, i, label) ==
    /\ text[i] = label
    /\ LET p == NextNonSpace(text, i + 1)
       IN  /\ At(text, p) = ":"
           /\ At(text, NextNonSpace(text, p + 1)) \in Digits

\* the value of the first labelled number of text, or None
FirstLabeledNumber(text, label) ==
    LET found == {i \in 1..Len(text) : IsLabeledNumber(text, i, label)}
    IN  IF found = {} THEN None
        ELSE LET first == CHOOSE i \in found : \A j \in found : i <= j
                 q == NextNonSpace(text, NextNonSpace(text, first + 1) + 1)
             IN  Some(int(SubSeq(text, q, LastDigit(text, q))))

\* C22: each of hardening_index, tests_performed and plugins_enabled is the
\* integer of the first labelled line of its own label, later ones ignored,
\* and None, never 0, when the text has no such line.
C22_SummaryFirstMatchOrNone ==
    parser_pc # "start" =>
        LET text == strip_ansi_codes(raw_output)
        IN  /\ parsed_data.summary.hardening_index = FirstLabeledNumber(text, "Hardening index")
            /\ parsed_data.summary.tests_performed = FirstLabeledNumber(text, "Tests performed")
            /\ parsed_data.summary.plugins_enabled = FirstLabeledNumber(text, "Plugins enabled")

\* two hardening index lines, 25 then 0, no line for the tests, one for the
\* plugins
C22_Witness ==
    /\ parser_pc = "parsed"
    /\ raw_output = SummaryText(Some(25), None, Some(0), Some(0), None, None)
    /\ parsed_data.summary =
            [hardening_index |-> Some(25), tests_performed |-> None, plugins_enabled |-> Some(0)]

\* value is what the claim gives for label: None when no line of text begins
\* with label, else the trimmed rest of the first such line (None allowed
\* too when that rest is empty)
IsFieldOfLine(value, text, label) ==
    LET Labelled(line) == line # <<>> /\ line[1] = label
        lines == SelectSeq(split_lines(text), Labelled)
    IN  IF lines = <<>> THEN value = None
        ELSE \/ value = Some(strip(Tail(lines[1])))
             \/ strip(Tail(lines[1])) = <<>> /\ value = None

\* every label of text is the first symbol of a line
LabelsBeginLines(text) ==
    \A i \in 1..Len(text) :
        (\E n \in 1..5 : text[i] = SystemInfoLabels[n]) => (i = 1 \/ text[i - 1] = "\n")

\* C23: each of the five system_info fields is the trimmed text that follows
\* its label up to the end of the same line, or None when the label is
\* absent; no field holds the line of another label, and a label does not
\* change the value of another field.
C23_SystemInfoPerLine ==
    (parser_pc # "start" /\ LabelsBeginLines(strip_ansi_codes(raw_output))) =>
        LET text == strip_ansi_codes(raw_output)
            info == parsed_data.system_info
        IN  /\ IsFieldOfLine(info.os_name, text, SystemInfoLabels[1])
            /\ IsFieldOfLine(info.os_version, text, SystemInfoLabels[2])
            /\ IsFieldOfLine(info.kernel_version, text, SystemInfoLabels[3])
            /\ IsFieldOfLine(info.hostname, text, SystemInfoLabels[4])
            /\ IsFieldOfLine(info.hardware_platform, text, SystemInfoLabels[5])

\* text has a 'Software components:' section and, between its start and the
\* next 'Files:' marker (or the end of the text), label followed by [V]
InstalledInSection(text, label) ==
    LET starts == {i \in 1..Len(text) : text[i] \in ComponentsMarkers}
    IN  /\ starts # {}
        /\ LET start == CHOOSE i \in starts : \A j \in starts : i <= j
               ends == {j \in (start + 1)..Len(text) : text[j] \in FilesMarkers} \cup {Len(text) + 1}
               end == CHOOSE j \in ends : \A k \in ends : j <= k
           IN  \E n \in (start + 1)..(end - 1) :
                    /\ text[n] = label
                    /\ NextNonSpace(text, n + 1) > n + 1
                    /\ NextNonSpace(text, n + 1) < end
                    /\ text[NextNonSpace(text, n + 1)] = "[V]"

\* C24: firewall, intrusion_software and malware_scanner are each true
\* exactly when the text has a 'Software components:' section and, between
\* its start and the next 'Files:' marker (or the end of the text), the label
\* of the component is followed by [V].
C24_ComponentsOnlyInSection ==
    parser_pc # "start" =>
        LET text == strip_ansi_codes(raw_output)
            components == parsed_data.security_components
        IN  /\ components.firewall = InstalledInSection(text, "Firewall")
            /\ components.intrusion_software = InstalledInSection(text, "Intrusion software")
            /\ components.malware_scanner = InstalledInSection(text, "Malware scanner")

\* C25: for every parsed report statistics.warnings_count and
\* statistics.suggestions_count of the bundle are the lengths of the parsed
\* warnings and suggestions lists, before the cut to 10 and 20.
C25_StatisticsCountFullLists ==
    parser_pc = "formatted" =>
        /\ formatted.raised = ""
        /\ formatted.value.statistics.warnings_count = Len(parsed_data.warnings)
        /\ formatted.value.statistics.suggestions_count = Len(parsed_data.suggestions)

\* the jobs in status 'running' and the audit subprocesses executing
RunningJobs == {j \in 1..Len(jobs) : jobs[j].status = "running"}

ExecutingProcesses == {t \in 1..Len(scan_threads) : scan_threads[t].process = "executing"}

\* every job was given to start_scan at most once, as POST /api/scans does
StartedAsPosted == \A j \in 1..MaxJobs : start_scan_calls[j] <= 1

\* C26: across POST /api/scans requests (create_scan_job, then start_scan on
\* the new job) at most one job is in status 'running' and at most one audit
\* subprocess is executing at any moment.
C26_OneScanAtATime ==
    StartedAsPosted =>
        /\ Cardinality(RunningJobs) <= MAX_CONCURRENT_SCANS
        /\ Cardinality(ExecutingProcesses) <= MAX_CONCURRENT_SCANS

\* C27: a job moves only from pending to running and from running to
\* completed, failed or cancelled (or from pending to failed when its thread
\* could not be started), and no step changes a completed, failed or
\* cancelled job: a cancelled job is not set to completed or failed later.
\* Stated of the jobs given to start_scan at most once.
C27_TerminalStatusesAbsorbing ==
    [][\A j \in 1..Len(jobs) :
           (start_scan_calls'[j] <= 1 /\ jobs'[j].status # jobs[j].status) =>
               \/ jobs[j].status = "pending" /\ jobs'[j].status \in {"running", "failed"}
               \/ jobs[j].status = "running" /\ jobs'[j].status \in TerminalStatuses]_vars

\* C28: a cancel_job call terminates only the subprocess started for the job
\* it was given, and a job is marked cancelled only by a cancel_job call for it.
C28_CancelOnlyThatJob ==
    \A t \in 1..Len(scan_threads) :
        terminated_for[t] # 0 => scan_threads[t].job = terminated_for[t]

\* C29: whatever start_scan calls are made on a job, at most one scan thread
\* is ever created for it.
C29_StartedAtMostOnce ==
    \A j \in 1..Len(jobs) :
        Cardinality({t \in 1..Len(scan_threads) : scan_threads[t].job = j}) <= 1

SeverityKeys == {"severity", "severity_level"}

\* C30: after classify_findings the list it was given has the same findings
\* in the same order, each with the keys and values it had and without the
\* keys 'severity' and 'severity_level'; every returned finding has them.
C30_InputUnchanged ==
    cf_calls > 0 =>
        /\ cf_findings = cf_given
        /\ \A i \in 1..Len(cf_findings) : DOMAIN cf_findings[i] \cap SeverityKeys = {}
        /\ \A i \in 1..Len(cf_classified) : SeverityKeys \subseteq DOMAIN cf_classified[i]

\* a call that returned the findings in another order than it was given them
C30_Witness ==
    /\ cf_calls > 0
    /\ Len(cf_given) = 2
    /\ cf_findings = cf_given
    /\ WithoutSeverity(cf_classified[1]) = cf_given[2]
    /\ WithoutSeverity(cf_classified[2]) = cf_given[1]
    /\ cf_given[1] # cf_given[2]

=============================================================================
